---- MODULE Spec2Model ----
(***************************************************************************)
(* Pinyin transliteration engine of the inverted-index tokenizer:          *)
(* SmartForest (phrase trie), SmartGetWord (forward maximum matcher),      *)
(* PinyinUtil (resolver) and PinyinFormatter.                              *)
(*                                                                         *)
(* Strings are sequences of bytes (std::string); code points are integers  *)
(* (UChar32).  Indices are kept 0-based as in the source and turned into   *)
(* 1-based sequence positions where a sequence is read.                    *)
(***************************************************************************)
EXTENDS Integers, Sequences, FiniteSets, TLC

VARIABLES
    forest,      \* PinyinUtil::polyphone_dict_, the root SmartForest node
    ops,         \* number of add / remove calls made so far
    lastOp,      \* the most recent call and its arguments
    recent,      \* history: phrase -> payload of its latest add (none after remove)
    text,        \* the document (bytes) handed to getWord / convert
    sgw,         \* the SmartGetWord object of the scan in progress
    ret,         \* return value of the most recent call
    fmtIn,       \* PinyinFormatter::formatPinyin argument pinyin_str
    fmtFormat,   \* PinyinFormatter::formatPinyin argument format
    fmtOut,      \* PinyinFormatter::formatPinyin return value
    cBranches,   \* the branches vector of one node, shared by the threads
    cThreads,    \* per thread: program counter and locals of add / getBranch
    cBefore,     \* the characters with a child in the node before the threads start
    segDict,     \* PinyinAlphabetDict::_alphabet, the loaded syllable entries
    segText,     \* PinyinAlphabetTokenizer::walk argument text
    segOut,      \* PinyinAlphabetTokenizer::walk return value
    tokenizer,   \* the PinyinTokenizer object: its members
    tokRet,      \* the most recent PinyinTokenizer call and what it returned;
                 \* reused: an earlier document gave tokens through this object
    tokOut       \* history: the tokens next() returned since the last reset()

trieVars == <<forest, ops, lastOp, recent>>
scanVars == <<text, sgw, ret>>
fmtVars  == <<fmtIn, fmtFormat, fmtOut>>
concVars == <<cBranches, cThreads, cBefore>>
segVars  == <<segDict, segText, segOut>>
tokVars  == <<tokenizer, tokRet, tokOut>>
vars == <<forest, ops, lastOp, recent, text, sgw, ret, fmtIn, fmtFormat, fmtOut,
          cBranches, cThreads, cBefore, segDict, segText, segOut,
          tokenizer, tokRet, tokOut>>

----------------------------------------------------------------------------
(* Bounds of the model                                                     *)

MaxWordLen == 3      \* runes per phrase in the trie-only specification
MaxTrieOps == 3      \* add / remove calls in the trie-only specification
MaxLen == 2          \* runes per document
MaxOps == 2          \* insertPinyin calls before / between scans
MaxReadingLen == 3   \* bytes per reading handed to formatPinyin
MaxSegLen == 4       \* bytes per text handed to PinyinAlphabetTokenizer::walk
MaxTokLen == 2       \* pieces (runes or stray bytes) per document of the tokenizer
MaxScanLen == 3      \* runes per document of the stepwise getFrontWords

----------------------------------------------------------------------------
(* Generic helpers                                                         *)

Min(a, b) == IF a < b THEN a ELSE b

RECURSIVE SeqsUpTo(_, _)
\* all sequences over S of length 0..n
SeqsUpTo(S, n) ==
    IF n = 0 THEN {<<>>}
    ELSE LET shorter == SeqsUpTo(S, n - 1)
         IN  shorter \cup {Append(s, x) : s \in {t \in shorter : Len(t) = n - 1}, x \in S}

RECURSIVE Flatten(_)
Flatten(ss) == IF ss = <<>> THEN <<>> ELSE Head(ss) \o Flatten(Tail(ss))

IsPrefix(p, s) == Len(p) <= Len(s) /\ SubSeq(s, 1, Len(p)) = p

----------------------------------------------------------------------------
(* ICU UTF-8 macros                                                        *)

U_SENTINEL == -1

IsTrail(b) == b >= 128 /\ b <= 191

\* U8_NEXT(s, i, length, c): decode one code point at 0-based byte index i;
\* an ill-formed sequence gives U_SENTINEL and advances past the lead byte
\* and the trail bytes that were well-formed so far.
U8_NEXT(s, i) ==
    LET len == Len(s)
        b0 == s[i + 1]
        b(k) == s[i + 1 + k]
        t1ok3 == i + 1 < len /\ IsTrail(b(1))
                   /\ (b0 = 224 => b(1) >= 160) /\ (b0 = 237 => b(1) <= 159)
        t1ok4 == i + 1 < len /\ IsTrail(b(1))
                   /\ (b0 = 240 => b(1) >= 144) /\ (b0 = 244 => b(1) <= 143)
    IN  IF b0 < 128 THEN [c |-> b0, i |-> i + 1]
        ELSE IF b0 >= 194 /\ b0 <= 223 THEN
            IF i + 1 < len /\ IsTrail(b(1))
            THEN [c |-> (b0 - 192) * 64 + (b(1) - 128), i |-> i + 2]
            ELSE [c |-> U_SENTINEL, i |-> i + 1]
        ELSE IF b0 >= 224 /\ b0 <= 239 THEN
            IF ~t1ok3 THEN [c |-> U_SENTINEL, i |-> i + 1]
            ELSE IF i + 2 < len /\ IsTrail(b(2))
            THEN [c |-> (b0 - 224) * 4096 + (b(1) - 128) * 64 + (b(2) - 128), i |-> i + 3]
            ELSE [c |-> U_SENTINEL, i |-> i + 2]
        ELSE IF b0 >= 240 /\ b0 <= 244 THEN
            IF ~t1ok4 THEN [c |-> U_SENTINEL, i |-> i + 1]
            ELSE IF ~(i + 2 < len /\ IsTrail(b(2))) THEN [c |-> U_SENTINEL, i |-> i + 2]
            ELSE IF i + 3 < len /\ IsTrail(b(3))
            THEN [c |-> (b0 - 240) * 262144 + (b(1) - 128) * 4096
                          + (b(2) - 128) * 64 + (b(3) - 128), i |-> i + 4]
            ELSE [c |-> U_SENTINEL, i |-> i + 3]
        ELSE [c |-> U_SENTINEL, i |-> i + 1]

\* U8_LENGTH(c): the argument is read as uint32_t, so a negative c gives 0
U8_LENGTH(c) ==
    IF c < 0 THEN 0
    ELSE IF c <= 127 THEN 1
    ELSE IF c <= 2047 THEN 2
    ELSE IF c <= 55295 THEN 3
    ELSE IF c <= 57343 \/ c > 1114111 THEN 0
    ELSE IF c <= 65535 THEN 3
    ELSE 4

\* U8_APPEND_UNSAFE(buffer, length, c)
U8_APPEND_UNSAFE(c) ==
    IF c <= 127 THEN <<c>>
    ELSE IF c <= 2047 THEN <<192 + (c \div 64), 128 + (c % 64)>>
    ELSE IF c <= 65535
    THEN <<224 + (c \div 4096), 128 + ((c \div 64) % 64), 128 + (c % 64)>>
    ELSE <<240 + (c \div 262144), 128 + ((c \div 4096) % 64),
           128 + ((c \div 64) % 64), 128 + (c % 64)>>

RECURSIVE Utf8Decode(_, _)
Utf8Decode(s, i) ==
    LET Push(n) == <<IF n.c = U_SENTINEL THEN 65533 ELSE n.c>> \o Utf8Decode(s, n.i)
    IN  IF i >= Len(s) THEN <<>> ELSE Push(U8_NEXT(s, i))

\* SmartForest::utf8_to_unicode, SmartGetWord::utf8_to_unicode
utf8_to_unicode(utf8_str) == Utf8Decode(utf8_str, 0)

\* SmartForest::unicode_to_utf8, SmartGetWord::unicode_to_utf8 (start, length)
unicode_to_utf8(unicode_chars, start, length) ==
    IF start < 0 \/ start >= Len(unicode_chars) \/ length <= 0 THEN <<>>
    ELSE LET end == Min(start + length, Len(unicode_chars))
         IN  Flatten([k \in 1..(end - start) |-> U8_APPEND_UNSAFE(unicode_chars[start + k])])

----------------------------------------------------------------------------
(* SmartForest<T>: the phrase trie                                         *)

MAX_SIZE == 65536
CONTINUE == 1
WORD_CONTINUE == 2
WORD_END == 3

\* a moved-from or never-set unique_ptr in a branches vector
NullNode == [null |-> TRUE]

\* T {} for T = std::vector<std::string>
EmptyParam == <<>>

\* SmartForest(UChar32 c, int status, T param); rate_ is 0.9 in every constructor used
NewNode(c, status, param) ==
    [c |-> c, status |-> status % 256, param |-> param, branches |-> <<>>]

\* SmartForest(): the root node
RootNode == NewNode(0, CONTINUE, EmptyParam)

\* CharComparator()(a, temp_node): a null entry orders before everything
CharComparator(a, c) == IF a = NullNode THEN TRUE ELSE a.c < c

RECURSIVE lower_bound(_, _, _, _)
\* std::lower_bound over branches[first, first + len) (0-based), by bisection
lower_bound(branches, first, len, c) ==
    IF len <= 0 THEN first
    ELSE LET half == len \div 2
             middle == first + half
         IN  IF CharComparator(branches[middle + 1], c)
             THEN lower_bound(branches, middle + 1, len - half - 1, c)
             ELSE lower_bound(branches, first, half, c)

\* SmartForest::getIndex on a branches vector
getIndexOf(branches, c) ==
    IF branches = <<>> THEN -1
    ELSE IF Len(branches) = MAX_SIZE THEN c
    ELSE LET it == lower_bound(branches, 0, Len(branches), c)
         IN  IF it /= Len(branches) /\ branches[it + 1] /= NullNode /\ branches[it + 1].c = c
             THEN it
             ELSE -it - 1

getIndex(node, c) == getIndexOf(node.branches, c)

\* variant: a WORD_END node an insert passes through keeps status WORD_END
MergeStatus_NoDowngrade(branch, branch_status, branch_param) ==
    IF branch_status = 255 THEN [branch EXCEPT !.status = 1]
    ELSE IF branch_status = 3
    THEN [branch EXCEPT !.status = IF @ /= 3 THEN 2 ELSE @, !.param = branch_param]
    ELSE branch

\* variant: a node that is already a word keeps its param on a repeated insert
MergeStatus_KeepParam(branch, branch_status, branch_param) ==
    IF branch_status = 255 THEN [branch EXCEPT !.status = 1]
    ELSE IF branch_status = 1
    THEN IF branch.status = 3 THEN [branch EXCEPT !.status = 2] ELSE branch
    ELSE IF branch_status = 3
    THEN IF branch.status \in {2, 3} THEN branch
         ELSE [branch EXCEPT !.status = 2, !.param = branch_param]
    ELSE branch

\* variant: a node a phrase ends at becomes WORD_END whatever it was
MergeStatus_EndOverwrites(branch, branch_status, branch_param) ==
    IF branch_status = 255 THEN [branch EXCEPT !.status = 1]
    ELSE IF branch_status = 1
    THEN IF branch.status = 3 THEN [branch EXCEPT !.status = 2] ELSE branch
    ELSE IF branch_status = 3
    THEN [branch EXCEPT !.status = 3, !.param = branch_param]
    ELSE branch

\* the status merge switch of add(): branch is the existing node, the other
\* two arguments are the status and the parameter of the node being added
MergeStatus(branch, branch_status, branch_param) ==
    IF branch_status = 255 THEN [branch EXCEPT !.status = 1]
    ELSE IF branch_status = 1
    THEN IF branch.status = 3 THEN [branch EXCEPT !.status = 2] ELSE branch
    ELSE IF branch_status = 3
    THEN [branch EXCEPT !.status = IF @ /= 3 THEN 2 ELSE @, !.param = branch_param]
    ELSE branch

\* variant: the new node goes behind the nodes that are there
InsertBranch_Append(branches, insert, branch_node) == Append(branches, branch_node)

\* the binary insertion of add(): newBranches of size + 1 with the node at insert
InsertBranch(branches, insert, branch_node) ==
    [k \in 1..(Len(branches) + 1) |->
        IF k - 1 < insert THEN branches[k]
        ELSE IF k - 1 = insert THEN branch_node
        ELSE branches[k - 1]]

\* the switch of add() to direct indexing: tempBranches[b->getC()] = b
DirectBranches(branches, branch_node) ==
    [k \in 1..MAX_SIZE |->
        IF k - 1 = branch_node.c THEN branch_node
        ELSE IF \E j \in 1..Len(branches) : branches[j] /= NullNode /\ branches[j].c = k - 1
        THEN branches[CHOOSE j \in 1..Len(branches) :
                          branches[j] /= NullNode /\ branches[j].c = k - 1]
        ELSE NullNode]

\* SmartForest::add(std::unique_ptr<SmartForest<T>> branch_node), on node
add(node, branch_node) ==
    LET bs == getIndex(node, branch_node.c)
    IN  IF bs >= 0 THEN
            LET slot == IF bs < Len(node.branches) /\ node.branches[bs + 1] = NullNode
                        THEN branch_node ELSE node.branches[bs + 1]
            IN  [node EXCEPT !.branches[bs + 1] =
                     MergeStatus(slot, branch_node.status, branch_node.param)]
        ELSE IF node.branches /= <<>> /\ Len(node.branches) * 10 >= MAX_SIZE * 9
        THEN [node EXCEPT !.branches = DirectBranches(@, branch_node)]
        ELSE [node EXCEPT !.branches = InsertBranch(@, -(bs + 1), branch_node)]

RECURSIVE addChars(_, _, _, _)
\* the loop of add(keyWord, t) from character i (0-based) on, at tempBranch
addChars(tempBranch, chars, i, t) ==
    IF i >= Len(chars) THEN tempBranch
    ELSE LET new_node == IF i = Len(chars) - 1
                         THEN NewNode(chars[i + 1], 3, t)
                         ELSE NewNode(chars[i + 1], 1, EmptyParam)
             added == add(tempBranch, new_node)
             index == getIndex(added, chars[i + 1])
         IN  IF index >= 0 /\ index < Len(added.branches)
             THEN [added EXCEPT !.branches[index + 1] = addChars(@, chars, i + 1, t)]
             ELSE addChars(added, chars, i + 1, t)

\* SmartForest::add(const std::string& keyWord, T t)
addWord(root, keyWord, t) == addChars(root, utf8_to_unicode(keyWord), 0, t)

\* SmartForest::getBranch(UChar32 c)
getBranch(node, c) ==
    LET At(index) ==
            IF index < 0 THEN NullNode
            ELSE IF index < Len(node.branches) THEN node.branches[index + 1] ELSE NullNode
    IN  At(getIndex(node, c))

RECURSIVE getBranchChars(_, _, _)
\* SmartForest::getBranch(const std::vector<UChar32>& chars), from character i on
getBranchChars(tempBranch, chars, i) ==
    IF i >= Len(chars) THEN tempBranch
    ELSE LET index == getIndex(tempBranch, chars[i + 1])
         IN  IF index < 0 THEN NullNode
             ELSE IF index >= Len(tempBranch.branches)
                     \/ tempBranch.branches[index + 1] = NullNode
             THEN NullNode
             ELSE getBranchChars(tempBranch.branches[index + 1], chars, i + 1)

\* SmartForest::getBranch(const std::string& keyWord)
getBranchWord(root, keyWord) == getBranchChars(root, utf8_to_unicode(keyWord), 0)

RECURSIVE removeChars_DropChildren(_, _, _)
\* variant: remove() also cuts the subtree below the node of word
removeChars_DropChildren(tempBranch, chars, i) ==
    IF i >= Len(chars)
    THEN [tempBranch EXCEPT !.status = 1, !.param = EmptyParam, !.branches = <<>>]
    ELSE LET index == getIndex(tempBranch, chars[i + 1])
         IN  [tempBranch EXCEPT
                 !.branches[index + 1] = removeChars_DropChildren(@, chars, i + 1)]

RECURSIVE removeChars(_, _, _)
\* remove(): the node getBranch(word) reaches gets status 1 and an empty param
removeChars(tempBranch, chars, i) ==
    IF i >= Len(chars) THEN [tempBranch EXCEPT !.status = 1, !.param = EmptyParam]
    ELSE LET index == getIndex(tempBranch, chars[i + 1])
         IN  [tempBranch EXCEPT !.branches[index + 1] = removeChars(@, chars, i + 1)]

\* SmartForest::remove(const std::string& word)
remove(root, word) ==
    IF getBranchWord(root, word) = NullNode THEN root
    ELSE removeChars(root, utf8_to_unicode(word), 0)

RECURSIVE putMap(_, _)
\* SmartForest::putMap: the (key, param) entries of the subtrees in branches_vec
putMap(pre, branches_vec) ==
    UNION { LET sf == branches_vec[k]
            IN  IF sf = NullNode THEN {}
                ELSE LET key == pre \o unicode_to_utf8(<<sf.c>>, 0, 1)
                     IN  IF sf.status = 3 THEN {<<key, sf.param>>}
                         ELSE IF sf.status = 2
                         THEN {<<key, sf.param>>} \cup putMap(key, sf.branches)
                         ELSE putMap(key, sf.branches)
          : k \in 1..Len(branches_vec) }

\* SmartForest::toMap
toMap(root) == IF root.branches = <<>> THEN {} ELSE putMap(<<>>, root.branches)

----------------------------------------------------------------------------
(* Inputs: code points, documents, phrases and payloads                    *)

\* the code points used as input: U+4E2D, U+56FD, U+4EBA, 'a', '5', '_'
CP == [zhong |-> 20013, guo |-> 22269, ren |-> 20154, a |-> 97, five |-> 53,
       underscore |-> 95]

Encode(chars) == unicode_to_utf8(chars, 0, Len(chars))

\* the readings a payload is made of, per payload version: hang2 huo4 lv4 and
\* xing2 he2 lu:4
ReadingPool ==
    << << <<104, 97, 110, 103, 50>>, <<104, 117, 111, 52>>, <<108, 118, 52>> >>,
       << <<120, 105, 110, 103, 50>>, <<104, 101, 50>>, <<108, 117, 58, 52>> >> >>

PayloadVersions == {1, 2}

\* a payload with one reading per rune of a phrase of k runes
Payload(v, k) == SubSeq(ReadingPool[v], 1, Min(k, Len(ReadingPool[v])))

NoOp == [op |-> "none", word |-> <<>>, param |-> <<>>, hit |-> FALSE]
NoMatcher == [null |-> TRUE]
NoRet == [op |-> "none"]

\* the complete phrases of the trie
IsWord(root, keyWord) ==
    LET node == getBranchWord(root, keyWord)
    IN  node /= NullNode /\ node.status \in {WORD_CONTINUE, WORD_END}

----------------------------------------------------------------------------
(* Specification SpecTrie: add and remove on one SmartForest               *)

TrieAlphabet == {CP.zhong, CP.guo, CP.ren}

TrieChars == SeqsUpTo(TrieAlphabet, MaxWordLen)

\* the phrases added and removed: the runs of U+4E2D U+56FD U+4EBA
TrieWords ==
    {Encode(chars) : chars \in
        {c \in TrieChars \ {<<>>} :
            \E k \in 0..2 : /\ k + Len(c) <= 3
                            /\ c = SubSeq(<<CP.zhong, CP.guo, CP.ren>>, k + 1, k + Len(c))}}

ScanIdle == text = <<>> /\ sgw = NoMatcher /\ ret = NoRet

FmtIdle == fmtIn = <<>> /\ fmtFormat = [null |-> TRUE] /\ fmtOut = <<>>

ConcIdle == cBranches = <<>> /\ cThreads = <<>> /\ cBefore = {}

NoWalk == [called |-> FALSE, tokens |-> <<>>, spans |-> <<>>, parts |-> <<>>]

SegIdle == segDict = {} /\ segText = <<>> /\ segOut = NoWalk

\* no PinyinTokenizer constructed
NoTokenizer == [null |-> TRUE]

TokIdle == tokenizer = NoTokenizer /\ tokRet = [op |-> "none"] /\ tokOut = <<>>

TrieInit ==
    /\ forest = RootNode
    /\ ops = 0
    /\ lastOp = NoOp
    /\ recent = {}
    /\ ScanIdle /\ FmtIdle /\ ConcIdle /\ SegIdle /\ TokIdle

\* forest->add(keyWord, t)
TrieAdd ==
    \E w \in TrieWords, v \in PayloadVersions :
        LET t == Payload(v, Len(utf8_to_unicode(w)))
        IN  /\ ops < MaxTrieOps
            /\ forest' = addWord(forest, w, t)
            /\ ops' = ops + 1
            /\ lastOp' = [op |-> "add", word |-> w, param |-> t, hit |-> IsWord(forest, w)]
            /\ recent' = {e \in recent : e[1] /= w} \cup {<<w, t>>}
            /\ UNCHANGED <<scanVars, fmtVars, concVars, segVars, tokVars>>

\* forest->remove(word)
TrieRemove ==
    \E w \in TrieWords \cup {<<>>} :
        /\ ops < MaxTrieOps
        /\ forest' = remove(forest, w)
        /\ ops' = ops + 1
        /\ lastOp' = [op |-> "remove", word |-> w, param |-> <<>>, hit |-> IsWord(forest, w)]
        /\ recent' = {e \in recent : e[1] /= w}
        /\ UNCHANGED <<scanVars, fmtVars, concVars, segVars, tokVars>>

TrieNext == TrieAdd \/ TrieRemove

SpecTrie == TrieInit /\ [][TrieNext]_vars

----------------------------------------------------------------------------
(* SmartGetWord<T>: forward maximum matching over the trie                 *)

\* "\x01NULL\x01" and ""
NULL_RESULT == <<1, 78, 85, 76, 76, 1>>
EMPTYSTRING == <<>>

LoopLimit == 1000

\* SmartGetWord(forest, content): offe, root_, i_, tempOffe_ start at 0
NewGetWord(content) ==
    [chars |-> utf8_to_unicode(content), i |-> 0, root |-> 0, isBack |-> FALSE,
     tempOffe |-> 0, offe |-> 0, param |-> EmptyParam, str |-> <<>>]

\* SmartGetWord::isE: "is an English letter", the range 'A'..'z'
isE(c) == c >= 65 /\ c <= 122

\* SmartGetWord::isNum
isNum(c) == c >= 48 /\ c <= 57

\* SmartGetWord::checkSame
checkSame(l, c) == (isE(l) /\ isE(c)) \/ (isNum(l) /\ isNum(c))

\* SmartGetWord::checkNumberOrEnglish, on matcher m
checkNumberOrEnglish(m, temp) ==
    LET Check(temp_chars) ==
            LET n == Len(temp_chars)
                l == temp_chars[1]
                r == IF n > 1 THEN temp_chars[n] ELSE temp_chars[1]
            IN  IF temp_chars = <<>> THEN temp
                ELSE IF l < 127 /\ m.offe > 0 /\ checkSame(l, m.chars[m.offe])
                THEN EMPTYSTRING
                ELSE IF r < 127 /\ m.offe + n < Len(m.chars)
                        /\ checkSame(r, m.chars[m.offe + n + 1])
                THEN EMPTYSTRING
                ELSE temp
    IN  IF temp = <<>> \/ temp = EMPTYSTRING \/ temp = NULL_RESULT THEN temp
        ELSE Check(utf8_to_unicode(temp))

RECURSIVE frontWordsLoop(_, _, _)
\* the for loop of SmartGetWord::frontWords: m is the matcher at the loop
\* test, branch is branch_; the value is the matcher after the call and the
\* returned string
frontWordsLoop(root, m, branch) ==
    LET n == Len(m.chars)
        Back(str) ==
            LET at == IF Len(str) = 0 THEN m.root + 1 ELSE m.root + m.tempOffe
            IN  [m |-> [m EXCEPT !.offe = m.root, !.str = str, !.root = at,
                                 !.i = at, !.isBack = FALSE],
                 temp |-> str]
        End(str, param) ==
            [m |-> [m EXCEPT !.offe = m.root, !.str = str, !.param = param,
                             !.isBack = FALSE,
                             !.i = IF Len(str) > 0 THEN m.i + 1 ELSE m.root + 1,
                             !.root = IF Len(str) > 0 THEN m.i + 1 ELSE @],
             temp |-> str]
        Step(next) ==
            IF next = NullNode THEN
                IF m.isBack THEN Back(unicode_to_utf8(m.chars, m.root, m.tempOffe))
                ELSE IF m.root + 1 >= n
                THEN [m |-> [m EXCEPT !.i = m.root, !.root = m.root + 1],
                      temp |-> NULL_RESULT]
                ELSE frontWordsLoop(root,
                         [m EXCEPT !.i = m.root + 1, !.root = m.root + 1], root)
            ELSE IF next.status = WORD_CONTINUE THEN
                frontWordsLoop(root,
                    [m EXCEPT !.isBack = TRUE, !.tempOffe = m.i - m.root + 1,
                              !.param = next.param, !.i = @ + 1],
                    next)
            ELSE IF next.status = WORD_END
            THEN End(unicode_to_utf8(m.chars, m.root, m.i - m.root + 1), next.param)
            ELSE frontWordsLoop(root, [m EXCEPT !.i = @ + 1], next)
    IN  IF ~(m.i < n + 1)
        THEN [m |-> [m EXCEPT !.tempOffe = @ + n], temp |-> NULL_RESULT]
        ELSE Step(IF m.i = n THEN NullNode ELSE getBranch(branch, m.chars[m.i + 1]))

\* SmartGetWord::frontWords: branch_ is forest_ whenever a call begins
frontWords(root, m) == frontWordsLoop(root, m, root)

RECURSIVE getFrontWordsLoop(_, _, _, _)
\* the do-while loop of SmartGetWord::getFrontWords; withheld records the
\* matches checkNumberOrEnglish turned into EMPTYSTRING during the call
getFrontWordsLoop(root, m, loop_count, withheld) ==
    LET Checked(r, temp) ==
            IF temp = EMPTYSTRING
            THEN getFrontWordsLoop(root, r.m, loop_count + 1,
                     Append(withheld, [offe |-> r.m.offe, word |-> r.temp]))
            ELSE [m |-> r.m, temp |-> temp, withheld |-> withheld]
        Found(r) ==
            IF r.temp = NULL_RESULT
            THEN [m |-> r.m, temp |-> r.temp, withheld |-> withheld]
            ELSE Checked(r, checkNumberOrEnglish(r.m, r.temp))
    IN  IF loop_count + 1 > LoopLimit
        THEN [m |-> m, temp |-> NULL_RESULT, withheld |-> withheld]
        ELSE Found(frontWords(root, m))

\* SmartGetWord::getFrontWords
getFrontWords(root, m) == getFrontWordsLoop(root, m, 0, <<>>)

----------------------------------------------------------------------------
(* PinyinFormat and PinyinFormatter                                        *)

YuCharTypes == {"WITH_U_AND_COLON", "WITH_V", "WITH_U_UNICODE"}
ToneTypes == {"WITH_TONE_NUMBER", "WITHOUT_TONE", "WITH_TONE_MARK", "WITH_ABBR"}
CaseTypes == {"LOWERCASE", "UPPERCASE", "CAPITALIZE"}

\* PinyinFormat(): the default member values
DefaultFormat ==
    [yu |-> "WITH_U_AND_COLON", tone |-> "WITH_TONE_NUMBER", case |-> "LOWERCASE",
     onlyPinyin |-> FALSE]

\* "aeiouv"
ALL_UNMARKED_VOWEL_STR == <<97, 101, 105, 111, 117, 118>>

\* the 30 marked vowels, 55 bytes of UTF-8
ALL_MARKED_VOWEL_STR ==
    <<196, 129, 195, 161, 196, 131, 195, 160, 97,
      196, 147, 195, 169, 196, 149, 195, 168, 101,
      196, 171, 195, 173, 196, 173, 195, 172, 105,
      197, 141, 195, 179, 197, 143, 195, 178, 111,
      197, 171, 195, 186, 197, 173, 195, 185, 117,
      199, 150, 199, 152, 199, 154, 199, 156, 195, 188>>

\* "ü" in UTF-8
U_UMLAUT == <<195, 188>>

IsLower(b) == b >= 97 /\ b <= 122
IsToneDigit(b) == b >= 49 /\ b <= 53

\* std::toupper / std::tolower on one unsigned char, "C" locale
toupper(b) == IF IsLower(b) THEN b - 32 ELSE b
tolower(b) == IF b >= 65 /\ b <= 90 THEN b + 32 ELSE b

RECURSIVE Find(_, _, _)
\* std::string::find(pat, from): 0-based index of the first occurrence, or -1
Find(str, pat, from) ==
    IF from + Len(pat) > Len(str) THEN -1
    ELSE IF SubSeq(str, from + 1, from + Len(pat)) = pat THEN from
    ELSE Find(str, pat, from + 1)

RECURSIVE ReplaceAll(_, _, _)
\* std::regex_replace(str, std::regex(pat), rep) for a literal pattern
ReplaceAll(str, pat, rep) ==
    LET at == Find(str, pat, 0)
    IN  IF at < 0 THEN str
        ELSE SubSeq(str, 1, at) \o rep
             \o ReplaceAll(SubSeq(str, at + Len(pat) + 1, Len(str)), pat, rep)

\* variant: only a tone digit that ends the string is removed
RemoveToneDigits_TrailingOnly(str) ==
    IF str /= <<>> /\ IsToneDigit(str[Len(str)]) THEN SubSeq(str, 1, Len(str) - 1)
    ELSE str

\* std::regex_replace(str, std::regex("[1-5]"), "")
RemoveToneDigits(str) == SelectSeq(str, LAMBDA b : ~IsToneDigit(b))

\* std::regex_match(str, std::regex("[a-z]*[1-5]?"))
MatchesLettersTone(str) ==
    /\ \A k \in 1..(Len(str) - 1) : IsLower(str[k])
    /\ Len(str) > 0 => (IsLower(str[Len(str)]) \/ IsToneDigit(str[Len(str)]))

\* std::regex_match(str, std::regex("[a-z]*[1-5]"))
MatchesLettersToneDigit(str) ==
    /\ Len(str) > 0
    /\ \A k \in 1..(Len(str) - 1) : IsLower(str[k])
    /\ IsToneDigit(str[Len(str)])

RECURSIVE LastVowel(_, _)
\* the backward loop over lower_case_pinyin for a character of "aeiouv"
LastVowel(str, i) ==
    IF i < 0 THEN -1
    ELSE IF Find(ALL_UNMARKED_VOWEL_STR, <<str[i + 1]>>, 0) >= 0 THEN i
    ELSE LastVowel(str, i - 1)

\* marked_vowel_str.substr(vowel_location, 1): one byte of the table
MarkedVowelAt(vowel_location) == SubSeq(ALL_MARKED_VOWEL_STR, vowel_location + 1, vowel_location + 1)

\* variant: a reading of another shape is handed back as it came
convertToneNumber2ToneMark_BadFormatAsIs(pinyin_str) ==
    LET lower_case_pinyin == [k \in 1..Len(pinyin_str) |-> tolower(pinyin_str[k])]
        len == Len(lower_case_pinyin)
    IN  IF ~MatchesLettersTone(lower_case_pinyin) THEN pinyin_str
        ELSE IF ~MatchesLettersToneDigit(lower_case_pinyin)
        THEN ReplaceAll(lower_case_pinyin, <<118>>, U_UMLAUT)
        ELSE
        LET tune_number == lower_case_pinyin[len] - 48
            index_of_a == Find(lower_case_pinyin, <<97>>, 0)
            index_of_e == Find(lower_case_pinyin, <<101>>, 0)
            ou_index == Find(lower_case_pinyin, <<111, 117>>, 0)
            index_of_unmarked_vowel ==
                IF index_of_a >= 0 THEN index_of_a
                ELSE IF index_of_e >= 0 THEN index_of_e
                ELSE IF ou_index >= 0 THEN ou_index
                ELSE LastVowel(lower_case_pinyin, len - 1)
        IN  IF index_of_unmarked_vowel < 0 THEN lower_case_pinyin
            ELSE
            LET unmarked_vowel == lower_case_pinyin[index_of_unmarked_vowel + 1]
                row_index == Find(ALL_UNMARKED_VOWEL_STR, <<unmarked_vowel>>, 0)
                vowel_location == row_index * 5 + (tune_number - 1)
                prefix == SubSeq(lower_case_pinyin, 1, index_of_unmarked_vowel)
                suffix == IF index_of_unmarked_vowel + 1 < len - 1
                          THEN SubSeq(lower_case_pinyin, index_of_unmarked_vowel + 2, len - 1)
                          ELSE <<>>
            IN  IF ~(vowel_location < Len(ALL_MARKED_VOWEL_STR)) THEN lower_case_pinyin
                ELSE ReplaceAll(prefix, <<118>>, U_UMLAUT)
                     \o MarkedVowelAt(vowel_location)
                     \o ReplaceAll(suffix, <<118>>, U_UMLAUT)

\* PinyinFormatter::convertToneNumber2ToneMark
convertToneNumber2ToneMark(pinyin_str) ==
    LET lower_case_pinyin == [k \in 1..Len(pinyin_str) |-> tolower(pinyin_str[k])]
        len == Len(lower_case_pinyin)
    IN  IF ~MatchesLettersTone(lower_case_pinyin) THEN lower_case_pinyin
        ELSE IF ~MatchesLettersToneDigit(lower_case_pinyin)
        THEN ReplaceAll(lower_case_pinyin, <<118>>, U_UMLAUT)
        ELSE
        LET tune_number == lower_case_pinyin[len] - 48
            index_of_a == Find(lower_case_pinyin, <<97>>, 0)
            index_of_e == Find(lower_case_pinyin, <<101>>, 0)
            ou_index == Find(lower_case_pinyin, <<111, 117>>, 0)
            index_of_unmarked_vowel ==
                IF index_of_a >= 0 THEN index_of_a
                ELSE IF index_of_e >= 0 THEN index_of_e
                ELSE IF ou_index >= 0 THEN ou_index
                ELSE LastVowel(lower_case_pinyin, len - 1)
        IN  IF index_of_unmarked_vowel < 0 THEN lower_case_pinyin
            ELSE
            LET unmarked_vowel == lower_case_pinyin[index_of_unmarked_vowel + 1]
                row_index == Find(ALL_UNMARKED_VOWEL_STR, <<unmarked_vowel>>, 0)
                vowel_location == row_index * 5 + (tune_number - 1)
                prefix == SubSeq(lower_case_pinyin, 1, index_of_unmarked_vowel)
                suffix == IF index_of_unmarked_vowel + 1 < len - 1
                          THEN SubSeq(lower_case_pinyin, index_of_unmarked_vowel + 2, len - 1)
                          ELSE <<>>
            IN  IF ~(vowel_location < Len(ALL_MARKED_VOWEL_STR)) THEN lower_case_pinyin
                ELSE ReplaceAll(prefix, <<118>>, U_UMLAUT)
                     \o MarkedVowelAt(vowel_location)
                     \o ReplaceAll(suffix, <<118>>, U_UMLAUT)

\* PinyinFormatter::abbr
abbr(str) ==
    IF str = <<>> THEN str
    ELSE LET first == U8_NEXT(str, 0)
         IN  IF first.c < 0 THEN SubSeq(str, 1, 1) ELSE U8_APPEND_UNSAFE(first.c)

\* PinyinFormatter::capitalize
capitalize(str) == IF str = <<>> THEN str ELSE [str EXCEPT ![1] = toupper(@)]

\* the tone stage of formatPinyin (switch on the tone type)
ToneStage(result, tone) ==
    IF tone = "WITHOUT_TONE" THEN RemoveToneDigits(result)
    ELSE IF tone = "WITH_TONE_MARK"
    THEN convertToneNumber2ToneMark(ReplaceAll(result, <<117, 58>>, <<118>>))
    ELSE result

\* the yu stage of formatPinyin (switch on the working yu type)
YuStage(result, tone, yu) ==
    IF tone = "WITH_TONE_MARK" THEN result
    ELSE IF yu = "WITH_V" THEN ReplaceAll(result, <<117, 58>>, <<118>>)
    ELSE IF yu = "WITH_U_UNICODE" THEN ReplaceAll(result, <<117, 58>>, U_UMLAUT)
    ELSE result

\* the case stage of formatPinyin
CaseStage(result, case) ==
    IF case = "UPPERCASE" THEN [k \in 1..Len(result) |-> toupper(result[k])]
    ELSE IF case = "CAPITALIZE" THEN capitalize(result)
    ELSE result

\* PinyinFormatter::formatPinyin
formatPinyin(pinyin_str, format) ==
    IF pinyin_str = <<>> THEN pinyin_str
    ELSE IF format.tone = "WITH_ABBR" THEN abbr(pinyin_str)
    ELSE LET working_yu == IF format.tone = "WITH_TONE_MARK"
                              /\ format.yu \in {"WITH_V", "WITH_U_AND_COLON"}
                           THEN "WITH_U_UNICODE" ELSE format.yu
         IN  CaseStage(YuStage(ToneStage(pinyin_str, format.tone), format.tone, working_yu),
                       format.case)

----------------------------------------------------------------------------
(* PinyinUtil: the resolver                                                *)

CJK_START == 19968
CJK_END == 40869

\* _pinyin_dict as load_pinyin_mapping leaves it for a pinyin.txt whose lines
\* 45, 186 and 2301 (U+4E2D, U+4EBA, U+56FD) are zhong1,zhong4 / ren2 / guo2
pinyin_dict(idx) ==
    IF idx = 45 THEN <<122, 104, 111, 110, 103, 49, 44, 122, 104, 111, 110, 103, 52>>
    ELSE IF idx = 186 THEN <<114, 101, 110, 50>>
    ELSE IF idx = 2301 THEN <<103, 117, 111, 50>>
    ELSE <<>>

\* PinyinUtil::to_raw_pinyin; cp is read as uint32_t
to_raw_pinyin(cp) ==
    IF cp < 0 \/ cp < CJK_START \/ cp > CJK_END THEN <<>>
    ELSE LET idx == cp - CJK_START
             raw == pinyin_dict(idx)
             comma == Find(raw, <<44>>, 0)
         IN  IF idx >= CJK_END - CJK_START + 1 THEN <<>>
             ELSE IF raw = <<>> THEN <<>>
             ELSE IF comma < 0 THEN raw
             ELSE SubSeq(raw, 1, comma)

RECURSIVE DecodeWithStarts(_, _)
\* the decoding loop of convert_with_raw_pinyin: chars and char_byte_starts
DecodeWithStarts(str, byte_pos) ==
    LET Push(n) ==
            <<[cp |-> n.c, start |-> n.i - U8_LENGTH(n.c)]>> \o DecodeWithStarts(str, n.i)
    IN  IF byte_pos >= Len(str) THEN <<>> ELSE Push(U8_NEXT(str, byte_pos))

\* the index a forward loop with break stops at: the least element, or -1
FirstOf(S) == IF S = {} THEN -1 ELSE CHOOSE i \in S : \A j \in S : i <= j

\* the body of the while loop of convert_with_raw_pinyin for one match:
\* where the readings of the match are written
MatchTarget(decoded, text_len, offe, matched_word, pinyins) ==
    LET n == Len(decoded)
        match_start_byte == offe
        match_end_byte == match_start_byte + Len(matched_word)
        byte_end(i) == IF i + 1 < n THEN decoded[i + 2].start ELSE text_len
        char_start == FirstOf({i \in 0..(n - 1) : match_start_byte >= decoded[i + 1].start
                                                   /\ match_start_byte < byte_end(i)})
        found_end == FirstOf({i \in 0..(n - 1) : decoded[i + 1].start >= match_end_byte})
        char_end == IF found_end = -1 THEN n ELSE found_end
        word_char_count == char_end - char_start
    IN  [char_start |-> char_start, count |-> Min(word_char_count, Len(pinyins))]

RECURSIVE ResolveLoop(_, _, _, _, _, _)
\* the while loop of convert_with_raw_pinyin over getFrontWords
ResolveLoop(root, m, decoded, text_len, result, matches) ==
    LET Assign(r, pinyins, t) ==
            ResolveLoop(root, r.m, decoded, text_len,
                        [k \in 1..Len(decoded) |->
                            IF k - 1 >= t.char_start /\ k - 1 < t.char_start + t.count
                            THEN [set |-> TRUE, pinyin |-> pinyins[k - t.char_start]]
                            ELSE result[k]],
                        Append(matches, [offe |-> r.m.offe, word |-> r.temp,
                                         param |-> pinyins]))
        OnMatch(r) ==
            IF r.temp = NULL_RESULT \/ r.temp = <<>>
            THEN [result |-> result, matches |-> matches]
            ELSE Assign(r, r.m.param,
                        MatchTarget(decoded, text_len, r.m.offe, r.temp, r.m.param))
    IN  OnMatch(getFrontWords(root, m))

\* PinyinUtil::convert_with_raw_pinyin; matches lists what the matcher reported
convert_with_raw_pinyin(root, str) ==
    LET Fill(decoded, loop) ==
            [raw |-> [k \in 1..Len(decoded) |->
                         IF loop.result[k].set THEN loop.result[k].pinyin
                         ELSE to_raw_pinyin(decoded[k].cp)],
             matches |-> loop.matches]
        Resolve(decoded) ==
            Fill(decoded,
                 ResolveLoop(root, NewGetWord(str), decoded, Len(str),
                             [k \in 1..Len(decoded) |-> [set |-> FALSE, pinyin |-> <<>>]],
                             <<>>))
    IN  IF str = <<>> THEN [raw |-> <<>>, matches |-> <<>>]
        ELSE Resolve(DecodeWithStarts(str, 0))

RECURSIVE FormatAll_SkipEmpty(_, _)
\* variant: the formatting loop drops empty readings whatever onlyPinyin says
FormatAll_SkipEmpty(raw_result, format) ==
    IF raw_result = <<>> THEN <<>>
    ELSE LET pinyin == Head(raw_result)
             rest == FormatAll_SkipEmpty(Tail(raw_result), format)
         IN  IF pinyin = <<>> THEN rest
             ELSE <<formatPinyin(pinyin, format)>> \o rest

RECURSIVE FormatAll(_, _)
\* the formatting loop of convert(text, format)
FormatAll(raw_result, format) ==
    IF raw_result = <<>> THEN <<>>
    ELSE LET pinyin == Head(raw_result)
             rest == FormatAll(Tail(raw_result), format)
         IN  IF pinyin = <<>>
             THEN IF format.onlyPinyin THEN rest ELSE <<pinyin>> \o rest
             ELSE <<formatPinyin(pinyin, format)>> \o rest

\* PinyinUtil::convert(const std::string& text, const PinyinFormat& format),
\* with the raw readings and the matches it went through
convertTrace(root, str, format) ==
    LET Formatting(r) ==
            [raw |-> r.raw, matches |-> r.matches,
             result |-> IF str = <<>> THEN <<>> ELSE FormatAll(r.raw, format)]
    IN  Formatting(convert_with_raw_pinyin(root, str))

convert(root, str, format) == convertTrace(root, str, format).result

----------------------------------------------------------------------------
(* Specification Spec: insertPinyin, matcher scans and convert on a document *)

Alphabet == {CP.zhong, CP.guo, CP.ren, CP.a, CP.five, CP.underscore}

Texts == {Encode(chars) : chars \in SeqsUpTo(Alphabet, MaxLen)}

\* the phrases insertPinyin is called with
Phrases ==
    {Encode(chars) : chars \in {<<CP.zhong>>, <<CP.zhong, CP.guo>>,
                                <<CP.zhong, CP.guo, CP.ren>>, <<CP.a>>,
                                <<CP.a, CP.five>>}}

\* the formats convert is called with
ConvertFormats == {[DefaultFormat EXCEPT !.tone = t] : t \in ToneTypes}

\* one caller, one call at a time: it holds neither a matcher nor a result
Idle == sgw = NoMatcher /\ ret = NoRet

Init ==
    /\ forest = RootNode
    /\ ops = 0
    /\ lastOp = NoOp
    /\ recent = {}
    /\ text \in Texts
    /\ sgw = NoMatcher
    /\ ret = NoRet
    /\ FmtIdle /\ ConcIdle /\ SegIdle /\ TokIdle

\* PinyinUtil::insertPinyin(word, pinyins)
InsertPinyin ==
    \E w \in Phrases, v \in PayloadVersions :
        LET pinyins == Payload(v, Len(utf8_to_unicode(w)))
            skipped == w = <<>> \/ pinyins = <<>>
        IN  /\ ops < MaxOps
            /\ Idle
            /\ forest' = IF skipped THEN forest ELSE addWord(forest, w, pinyins)
            /\ ops' = ops + 1
            /\ lastOp' = [op |-> "insertPinyin", word |-> w, param |-> pinyins,
                          hit |-> IsWord(forest, w)]
            /\ recent' = IF skipped THEN recent
                         ELSE {e \in recent : e[1] /= w} \cup {<<w, pinyins>>}
            /\ ret' = NoRet
            /\ UNCHANGED <<text, sgw, fmtVars, concVars, segVars, tokVars>>

\* forest->getWord(content): a scan of the document begins
GetWord ==
    /\ Idle
    /\ sgw' = [m |-> NewGetWord(text), done |-> FALSE]
    /\ ret' = [op |-> "getWord"]
    /\ lastOp' = [NoOp EXCEPT !.op = "getWord"]
    /\ UNCHANGED <<forest, ops, recent, text, fmtVars, concVars, segVars, tokVars>>

\* word_getter->getFrontWords(), called until it returns NULL_RESULT
GetFrontWords ==
    /\ sgw /= NoMatcher
    /\ ~sgw.done
    /\ LET Returned(r) ==
               /\ sgw' = [m |-> r.m, done |-> r.temp = NULL_RESULT]
               /\ ret' = [op |-> "getFrontWords", temp |-> r.temp, withheld |-> r.withheld]
       IN  Returned(getFrontWords(forest, sgw.m))
    /\ lastOp' = [NoOp EXCEPT !.op = "getFrontWords"]
    /\ UNCHANGED <<forest, ops, recent, text, fmtVars, concVars, segVars, tokVars>>

\* the caller drops what it holds: the matcher of a finished scan or the
\* vector convert returned go out of scope
Release ==
    /\ \/ sgw /= NoMatcher /\ sgw.done
       \/ sgw = NoMatcher /\ ret /= NoRet
    /\ sgw' = NoMatcher
    /\ ret' = NoRet
    /\ lastOp' = NoOp
    /\ UNCHANGED <<forest, ops, recent, text, fmtVars, concVars, segVars, tokVars>>

\* PinyinUtil::instance().convert(text, format)
Convert ==
    \E format \in ConvertFormats :
        /\ Idle
        /\ LET Returned(r) ==
                   [op |-> "convert", format |-> format, raw |-> r.raw,
                    matches |-> r.matches, result |-> r.result]
           IN  ret' = Returned(convertTrace(forest, text, format))
        /\ lastOp' = [NoOp EXCEPT !.op = "convert"]
        /\ UNCHANGED <<forest, ops, recent, text, sgw, fmtVars, concVars, segVars, tokVars>>

Next == InsertPinyin \/ GetWord \/ GetFrontWords \/ Release \/ Convert

Spec == Init /\ [][Next]_vars

----------------------------------------------------------------------------
(* Claims checked under Spec                                               *)

\* the decoded document
TextChars == utf8_to_unicode(text)

\* a getFrontWords call has just returned a phrase
Matched == ret.op = "getFrontWords" /\ ret.temp /= NULL_RESULT

\* the phrase word with payload param, reported at rune index offe, is an
\* inserted phrase and the longest one that is a prefix of the document there
LongestAt(offe, word, param) ==
    LET chars == utf8_to_unicode(word)
        rest == SubSeq(TextChars, offe + 1, Len(TextChars))
    IN  /\ IsPrefix(chars, rest)
        /\ <<word, param>> \in recent
        /\ \A e \in recent :
               IsPrefix(utf8_to_unicode(e[1]), rest)
                   => Len(utf8_to_unicode(e[1])) <= Len(chars)

\* C1: every phrase getFrontWords returns, starting at rune index offe, is an
\* inserted phrase with its payload and is the longest inserted phrase that
\* is a prefix of the document from offe on; the phrases one scan returns
\* follow each other without overlap.
C1_LongestMatch ==
    /\ Matched => LongestAt(sgw.m.offe, ret.temp, sgw.m.param)
    /\ ret.op = "convert" =>
           \A x \in DOMAIN ret.matches :
               /\ LongestAt(ret.matches[x].offe, ret.matches[x].word, ret.matches[x].param)
               /\ x > 1 => ret.matches[x].offe >=
                               ret.matches[x - 1].offe
                                   + Len(utf8_to_unicode(ret.matches[x - 1].word))

\* C1 witness: with U+4E2D and U+4E2D U+56FD inserted, the scan of the document
\* U+4E2D U+56FD has returned the two-rune phrase at index 0
C1_Witness ==
    /\ Matched
    /\ text = Encode(<<CP.zhong, CP.guo>>)
    /\ ret.temp = text
    /\ sgw.m.offe = 0
    /\ \E e \in recent : e[1] = Encode(<<CP.zhong>>)

\* C2 (as claimed): a match of k runes reported at rune index s gives
\* result[s + j] = payload[j] for 0 <= j < k, and every rune no match covers
\* has the reading of the single-codepoint table.
C2_PhraseReadingsInPlace ==
    ret.op = "convert" =>
        LET Runes(m) == Len(utf8_to_unicode(m.word))
        IN  /\ \A x \in DOMAIN ret.matches :
                   \A j \in 0..(Runes(ret.matches[x]) - 1) :
                       ret.raw[ret.matches[x].offe + j + 1] = ret.matches[x].param[j + 1]
            /\ \A i \in 0..(Len(TextChars) - 1) :
                   (~\E x \in DOMAIN ret.matches :
                          /\ i >= ret.matches[x].offe
                          /\ i < ret.matches[x].offe + Runes(ret.matches[x]))
                       => ret.raw[i + 1] = to_raw_pinyin(TextChars[i + 1])

\* C3: once insertPinyin(w, p) was the latest insert of w, convert of the
\* document w in the tone-numbered format returns exactly p.
C3_InsertedPhraseResolves ==
    (ret.op = "convert" /\ ret.format = DefaultFormat)
        => \A e \in recent : e[1] = text => ret.result = e[2]

\* C3 witness: a two-rune CJK phrase was inserted after another phrase and the
\* document is that phrase; its payload differs from the table readings
C3_Witness ==
    /\ ret.op = "convert" /\ ret.format = DefaultFormat
    /\ text = Encode(<<CP.zhong, CP.guo>>)
    /\ lastOp.op = "convert"
    /\ Cardinality(recent) = 2
    /\ \E e \in recent : e[1] = text /\ ret.result = e[2]
                         /\ e[2][1] /= to_raw_pinyin(CP.zhong)

\* the number of code points of a well-formed UTF-8 string: its lead bytes
CodePointCount(str) == Cardinality({k \in 1..Len(str) : ~IsTrail(str[k])})

\* C5: convert(text, format) returns one entry per code point of text for the
\* toneless, tone-numbered and abbreviation formats with onlyPinyin false.
C5_OneEntryPerCodePoint ==
    (ret.op = "convert" /\ ~ret.format.onlyPinyin
        /\ ret.format.tone \in {"WITHOUT_TONE", "WITH_TONE_NUMBER", "WITH_ABBR"})
        => Len(ret.result) = CodePointCount(text)

\* C5 witness: a document of several code points in which a phrase matched
\* and one code point has no reading
C5_Witness ==
    /\ ret.op = "convert" /\ ret.format.tone = "WITHOUT_TONE"
    /\ Len(ret.result) >= 2
    /\ ret.matches /= <<>>
    /\ \E k \in DOMAIN ret.result : ret.result[k] = <<>>
    /\ \E k \in DOMAIN ret.result : ret.result[k] /= <<>>

IsAsciiLetter(c) == (c >= 65 /\ c <= 90) \/ (c >= 97 /\ c <= 122)

\* both ASCII letters or both ASCII digits
SameClass(x, y) == (IsAsciiLetter(x) /\ IsAsciiLetter(y)) \/ (isNum(x) /\ isNum(y))

\* the boundary rule as claimed, for the phrase word found at rune index offe
ShouldWithhold(chars, offe, word) ==
    LET k == Len(word)
    IN  \/ offe > 0 /\ SameClass(word[1], chars[offe])
        \/ offe + k < Len(chars) /\ SameClass(word[k], chars[offe + k + 1])

\* C6 (as claimed): a match is withheld if and only if its first rune and the
\* rune before it, or its last rune and the rune after it, are both ASCII
\* letters or both ASCII digits.
C6_BoundaryRule ==
    ret.op = "getFrontWords" =>
        /\ \A x \in DOMAIN ret.withheld :
               ShouldWithhold(TextChars, ret.withheld[x].offe,
                              utf8_to_unicode(ret.withheld[x].word))
        /\ ret.temp /= NULL_RESULT
               => ~ShouldWithhold(TextChars, sgw.m.offe, utf8_to_unicode(ret.temp))

----------------------------------------------------------------------------
(* Claims checked under SpecTrie                                           *)

\* the node the characters chars lead to, NullNode when there is none
NodeAt(root, chars) == getBranchChars(root, chars, 0)

\* the first phrase a scan of the document str returns, with its payload
ScanFirst(root, str) ==
    LET First(r) == [temp |-> r.temp, param |-> r.m.param]
    IN  First(getFrontWords(root, NewGetWord(str)))

\* C7: remove(P) of an inserted phrase P leaves P's node in place with status
\* CONTINUE, an empty payload and its children; every other node keeps status
\* and payload, every other phrase stays a phrase with its payload and is
\* what a scan of it returns, and a scan of P no longer returns P.  remove of
\* a phrase that is not in the trie changes nothing.
C7_RemoveFrame ==
    [][lastOp'.op = "remove" =>
          LET P == lastOp'.word
              Pc == utf8_to_unicode(P)
          IN  IF ~IsWord(forest, P) THEN forest' = forest
              ELSE /\ NodeAt(forest', Pc) /= NullNode
                   /\ NodeAt(forest', Pc).status = CONTINUE
                   /\ NodeAt(forest', Pc).param = EmptyParam
                   /\ NodeAt(forest', Pc).branches = NodeAt(forest, Pc).branches
                   /\ \A q \in TrieChars \ {Pc} :
                          LET old == NodeAt(forest, q)
                              new == NodeAt(forest', q)
                          IN  IF old = NullNode THEN new = NullNode
                              ELSE /\ new /= NullNode
                                   /\ new.status = old.status
                                   /\ new.param = old.param
                   /\ toMap(forest') = {e \in toMap(forest) : e[1] /= P}
                   /\ \A e \in toMap(forest') :
                          ScanFirst(forest', e[1]) = [temp |-> e[1], param |-> e[2]]
                   /\ ScanFirst(forest', P).temp /= P
    ]_vars

\* C7 witness: U+4E2D U+56FD and U+4E2D U+56FD U+4EBA were inserted, the longer
\* one was removed, and a scan of the longer one returns the shorter
C7_Witness ==
    /\ lastOp.op = "remove" /\ lastOp.hit
    /\ lastOp.word = Encode(<<CP.zhong, CP.guo, CP.ren>>)
    /\ NodeAt(forest, <<CP.zhong, CP.guo, CP.ren>>) /= NullNode
    /\ ScanFirst(forest, lastOp.word).temp = Encode(<<CP.zhong, CP.guo>>)

\* a phrase that has phrases through its node was removed and they remain
C7_WitnessInner ==
    /\ lastOp.op = "remove" /\ lastOp.hit
    /\ lastOp.word = Encode(<<CP.zhong, CP.guo>>)
    /\ IsWord(forest, Encode(<<CP.zhong, CP.guo, CP.ren>>))

\* C8: the phrases of the trie and their payloads are exactly the phrases
\* inserted and not removed since, each with the payload of its most recent
\* insert; the node of each holds that payload.
C8_LastInsertWins ==
    /\ toMap(forest) = recent
    /\ \A e \in recent :
           /\ IsWord(forest, e[1])
           /\ getBranchWord(forest, e[1]).param = e[2]

\* C8 witness: a phrase was inserted a second time with another payload while
\* a longer phrase through its node is in the trie
C8_Witness ==
    /\ lastOp.op = "add" /\ lastOp.hit
    /\ lastOp.word = Encode(<<CP.zhong, CP.guo>>)
    /\ getBranchWord(forest, lastOp.word).param = lastOp.param
    /\ getBranchWord(forest, lastOp.word).status = WORD_CONTINUE
    /\ lastOp.param = Payload(2, 2)
    /\ Cardinality(recent) = 2

----------------------------------------------------------------------------
(* SpecFmt: PinyinFormatter::formatPinyin on one reading                   *)

\* the bytes readings are made of: d a e l o u v : 3 4
ReadingAlphabet == {100, 97, 101, 108, 111, 117, 118, 58, 51, 52}

\* readings with an uppercase letter that are not letters and a tone digit:
\* D3a and D:
UppercaseReadings == {<<68, 51, 97>>, <<68, 58>>}

Readings == (SeqsUpTo(ReadingAlphabet, MaxReadingLen) \ {<<>>}) \cup UppercaseReadings

Formats ==
    [yu : YuCharTypes, tone : ToneTypes, case : CaseTypes, onlyPinyin : {FALSE}]

NoFormat == [null |-> TRUE]

TrieIdle == forest = RootNode /\ ops = 0 /\ lastOp = NoOp /\ recent = {}

FmtInit ==
    /\ fmtIn \in Readings
    /\ fmtFormat = NoFormat
    /\ fmtOut = <<>>
    /\ TrieIdle /\ ScanIdle /\ ConcIdle /\ SegIdle /\ TokIdle

\* PinyinFormatter::formatPinyin(pinyin_str, format)
FormatPinyin ==
    \E format \in Formats :
        /\ fmtFormat = NoFormat
        /\ fmtFormat' = format
        /\ fmtOut' = formatPinyin(fmtIn, format)
        /\ UNCHANGED <<fmtIn, trieVars, scanVars, concVars, segVars, tokVars>>

FmtNext == FormatPinyin

SpecFmt == FmtInit /\ [][FmtNext]_vars

----------------------------------------------------------------------------
(* Claims checked under SpecFmt                                            *)

Formatted == fmtFormat /= NoFormat

\* a reading of shape [a-z]*[1-5]
IsToneNumbered(r) ==
    /\ Len(r) >= 1
    /\ r[Len(r)] >= 49 /\ r[Len(r)] <= 53
    /\ \A k \in 1..(Len(r) - 1) : r[k] >= 97 /\ r[k] <= 122

\* 1-based index of the first c in letters, 0 when there is none
FirstIndexOf(letters, c) ==
    IF \E k \in 1..Len(letters) : letters[k] = c
    THEN CHOOSE k \in 1..Len(letters) :
             letters[k] = c /\ \A j \in 1..(k - 1) : letters[j] /= c
    ELSE 0

\* 1-based index of the vowel that takes the mark: the first a, else the
\* first e, else the o of "ou", else the rightmost of a e i o u v; 0 if none
MarkedIndex(letters) ==
    LET IsVowel(k) == letters[k] \in {97, 101, 105, 111, 117, 118}
        ouAt == {k \in 1..(Len(letters) - 1) : letters[k] = 111 /\ letters[k + 1] = 117}
        vowels == {k \in 1..Len(letters) : IsVowel(k)}
    IN  IF FirstIndexOf(letters, 97) > 0 THEN FirstIndexOf(letters, 97)
        ELSE IF FirstIndexOf(letters, 101) > 0 THEN FirstIndexOf(letters, 101)
        ELSE IF ouAt /= {} THEN CHOOSE k \in ouAt : \A j \in ouAt : k <= j
        ELSE IF vowels /= {} THEN CHOOSE k \in vowels : \A j \in vowels : k >= j
        ELSE 0

\* the code points of the 6x5 table of marked vowels, row by row
MarkedVowelTable == utf8_to_unicode(ALL_MARKED_VOWEL_STR)

\* the reading with its tone digit dropped, the chosen vowel replaced by the
\* marked vowel of its row and tone, and every other v written U+00FC
ExpectedToneMark(r) ==
    LET letters == SubSeq(r, 1, Len(r) - 1)
        tone == r[Len(r)] - 48
        at == MarkedIndex(letters)
        row == FirstIndexOf(<<97, 101, 105, 111, 117, 118>>, letters[at]) - 1
    IN  Encode([k \in 1..Len(letters) |->
                   IF k = at THEN MarkedVowelTable[row * 5 + tone]
                   ELSE IF letters[k] = 118 THEN 252
                   ELSE letters[k]])

RECURSIVE WellFormedUtf8(_, _)
\* str is well-formed UTF-8 from 0-based byte index i on
WellFormedUtf8(str, i) ==
    LET Trail(k) == i + k < Len(str) /\ IsTrail(str[i + k + 1])
        b0 == str[i + 1]
    IN  IF i >= Len(str) THEN TRUE
        ELSE IF b0 < 128 THEN WellFormedUtf8(str, i + 1)
        ELSE IF b0 >= 194 /\ b0 <= 223 THEN Trail(1) /\ WellFormedUtf8(str, i + 2)
        ELSE IF b0 >= 224 /\ b0 <= 239
        THEN Trail(1) /\ Trail(2) /\ WellFormedUtf8(str, i + 3)
        ELSE IF b0 >= 240 /\ b0 <= 244
        THEN Trail(1) /\ Trail(2) /\ Trail(3) /\ WellFormedUtf8(str, i + 4)
        ELSE FALSE

\* C9 (as claimed): a reading of shape [a-z]*[1-5] with a vowel, formatted
\* with WITH_TONE_MARK in lower case, comes back without its digit, with the
\* vowel the placement rule selects replaced by the whole marked vowel of the
\* table and every v rendered as U+00FC, and the result is valid UTF-8.
C9_ToneMark ==
    (/\ Formatted
     /\ fmtFormat.tone = "WITH_TONE_MARK" /\ fmtFormat.case = "LOWERCASE"
     /\ IsToneNumbered(fmtIn)
     /\ MarkedIndex(SubSeq(fmtIn, 1, Len(fmtIn) - 1)) > 0)
        => /\ fmtOut = ExpectedToneMark(fmtIn)
           /\ WellFormedUtf8(fmtOut, 0)

\* C10 (as claimed): WITHOUT_TONE removes only a digit 1-5 that ends the
\* reading and keeps every other character, a digit 1-5 elsewhere included.
C10_OnlyTrailingDigit ==
    (/\ Formatted
     /\ fmtFormat.tone = "WITHOUT_TONE"
     /\ fmtFormat.yu = "WITH_U_AND_COLON" /\ fmtFormat.case = "LOWERCASE")
        => fmtOut = IF fmtIn[Len(fmtIn)] >= 49 /\ fmtIn[Len(fmtIn)] <= 53
                    THEN SubSeq(fmtIn, 1, Len(fmtIn) - 1)
                    ELSE fmtIn

RECURSIVE WithoutDigits(_)
\* str without its characters 1..5, the others in their order
WithoutDigits(str) ==
    IF str = <<>> THEN <<>>
    ELSE IF Head(str) >= 49 /\ Head(str) <= 53 THEN WithoutDigits(Tail(str))
    ELSE <<Head(str)>> \o WithoutDigits(Tail(str))

\* C10 (amended): WITHOUT_TONE removes every digit 1-5 of the reading,
\* wherever it stands, and keeps every other character in order; the yu and
\* case types then apply to what is left.
C10_EveryToneDigitRemoved ==
    (Formatted /\ fmtFormat.tone = "WITHOUT_TONE")
        => /\ \A k \in 1..Len(fmtOut) : ~(fmtOut[k] >= 49 /\ fmtOut[k] <= 53)
           /\ (fmtFormat.yu = "WITH_U_AND_COLON" /\ fmtFormat.case = "LOWERCASE")
                  => fmtOut = WithoutDigits(fmtIn)
           /\ fmtOut = CaseStage(YuStage(WithoutDigits(fmtIn), fmtFormat.tone,
                                         fmtFormat.yu), fmtFormat.case)

\* C10 witness: a reading with a tone digit before its last character was
\* formatted with WITHOUT_TONE and lost that digit
C10_Witness ==
    /\ Formatted /\ fmtFormat.tone = "WITHOUT_TONE"
    /\ fmtFormat.yu = "WITH_U_AND_COLON" /\ fmtFormat.case = "LOWERCASE"
    /\ fmtIn = <<100, 51, 97>>
    /\ fmtOut = <<100, 97>>

----------------------------------------------------------------------------
(* SpecConc: add() and getBranch() on the branches vector of one node,     *)
(* called from several threads.  Neither function takes a lock, so the     *)
(* threads interleave between the statements of add().                     *)

Writers == {"w1", "w2"}
Readers == {"r1"}
Threads == Writers \cup Readers

ConcAlphabet == {CP.zhong, CP.ren, CP.guo}

\* the sorted branches vector holding a WORD_END child for each character of S
RECURSIVE SortedBranches(_)
SortedBranches(S) ==
    IF S = {} THEN <<>>
    ELSE LET least == CHOOSE c \in S : \A d \in S : c <= d
         IN  <<NewNode(least, WORD_END, Payload(1, 1))>> \o SortedBranches(S \ {least})

\* the characters that have a child in branches
Children(branches) ==
    {branches[k].c : k \in {j \in 1..Len(branches) : branches[j] /= NullNode}}

NewThread(kind, c) ==
    [kind |-> kind, c |-> c, pc |-> "start", insert |-> 0, i |-> 0,
     newBranches |-> <<>>, index |-> 0, got |-> 0]

ConcInit ==
    /\ cBefore \in {S \in SUBSET ConcAlphabet : S /= {}}
    /\ cBranches = SortedBranches(cBefore)
    /\ cThreads \in {f \in [Threads -> {NewThread(k, c) : k \in {"add", "getBranch"},
                                                          c \in ConcAlphabet}] :
                        /\ \A t \in Writers : f[t].kind = "add"
                        /\ \A t \in Readers : f[t].kind = "getBranch"}
    /\ TrieIdle /\ ScanIdle /\ FmtIdle /\ SegIdle /\ TokIdle

Crashed == \E t \in Threads : cThreads[t].pc = "crashed"

\* add(): getIndex, then the status merge on an existing child, or the
\* allocation of newBranches for the binary insertion
AddGetIndex(t) ==
    /\ cThreads[t].kind = "add" /\ cThreads[t].pc = "start" /\ ~Crashed
    /\ LET bs == getIndexOf(cBranches, cThreads[t].c)
       IN  IF bs >= 0
           THEN /\ cBranches' = [cBranches EXCEPT
                                    ![bs + 1] = MergeStatus(@, WORD_END, Payload(2, 1))]
                /\ cThreads' = [cThreads EXCEPT ![t].pc = "done"]
           ELSE /\ cThreads' = [cThreads EXCEPT
                                   ![t].pc = "copyFront",
                                   ![t].insert = -(bs + 1),
                                   ![t].i = 0,
                                   ![t].newBranches =
                                       [k \in 1..(Len(cBranches) + 1) |-> NullNode]]
                /\ UNCHANGED cBranches
    /\ UNCHANGED <<cBefore, trieVars, scanVars, fmtVars, segVars, tokVars>>

\* add(): one newBranches[i] = std::move(branches[i]) of the first loop,
\* then newBranches[insert] = std::move(branch_node)
AddCopyFront(t) ==
    /\ cThreads[t].kind = "add" /\ cThreads[t].pc = "copyFront" /\ ~Crashed
    /\ LET th == cThreads[t]
       IN  IF th.i < th.insert
           THEN /\ cThreads' = [cThreads EXCEPT
                                   ![t].newBranches[th.i + 1] = cBranches[th.i + 1],
                                   ![t].i = th.i + 1]
                /\ cBranches' = [cBranches EXCEPT ![th.i + 1] = NullNode]
           ELSE /\ cThreads' = [cThreads EXCEPT
                                   ![t].newBranches[th.insert + 1] =
                                       NewNode(th.c, WORD_END, Payload(2, 1)),
                                   ![t].pc = "copyBack"]
                /\ UNCHANGED cBranches
    /\ UNCHANGED <<cBefore, trieVars, scanVars, fmtVars, segVars, tokVars>>

\* add(): one newBranches[i + 1] = std::move(branches[i]) of the second loop,
\* whose bound is the current branches.size().  A write past the end of
\* newBranches is undefined: the entry is lost or the process stops.
AddCopyBack(t) ==
    /\ cThreads[t].kind = "add" /\ cThreads[t].pc = "copyBack" /\ ~Crashed
    /\ LET th == cThreads[t]
       IN  IF th.i < Len(cBranches)
           THEN IF th.i + 2 <= Len(th.newBranches)
                THEN /\ cThreads' = [cThreads EXCEPT
                                        ![t].newBranches[th.i + 2] = cBranches[th.i + 1],
                                        ![t].i = th.i + 1]
                     /\ cBranches' = [cBranches EXCEPT ![th.i + 1] = NullNode]
                ELSE \/ /\ cThreads' = [cThreads EXCEPT ![t].i = th.i + 1]
                        /\ cBranches' = [cBranches EXCEPT ![th.i + 1] = NullNode]
                     \/ /\ cThreads' = [cThreads EXCEPT ![t].pc = "crashed"]
                        /\ UNCHANGED cBranches
           ELSE /\ cThreads' = [cThreads EXCEPT ![t].pc = "swap"]
                /\ UNCHANGED cBranches
    /\ UNCHANGED <<cBefore, trieVars, scanVars, fmtVars, segVars, tokVars>>

\* add(): branches = std::move(newBranches)
AddSwap(t) ==
    /\ cThreads[t].kind = "add" /\ cThreads[t].pc = "swap" /\ ~Crashed
    /\ cBranches' = cThreads[t].newBranches
    /\ cThreads' = [cThreads EXCEPT ![t].pc = "done", ![t].newBranches = <<>>]
    /\ UNCHANGED <<cBefore, trieVars, scanVars, fmtVars, segVars, tokVars>>

\* getBranch(c): int index = getIndex(c)
GetBranchIndex(t) ==
    /\ cThreads[t].kind = "getBranch" /\ cThreads[t].pc = "start" /\ ~Crashed
    /\ cThreads' = [cThreads EXCEPT ![t].index = getIndexOf(cBranches, cThreads[t].c),
                                    ![t].pc = "read"]
    /\ UNCHANGED <<cBranches, cBefore, trieVars, scanVars, fmtVars, segVars, tokVars>>

\* getBranch(c): the return statement reading branches[index]
GetBranchRead(t) ==
    /\ cThreads[t].kind = "getBranch" /\ cThreads[t].pc = "read" /\ ~Crashed
    /\ LET index == cThreads[t].index
           node == IF index < 0 THEN NullNode
                   ELSE IF index < Len(cBranches) THEN cBranches[index + 1]
                   ELSE NullNode
       IN  cThreads' = [cThreads EXCEPT ![t].got = IF node = NullNode THEN 0 ELSE node.c,
                                        ![t].pc = "done"]
    /\ UNCHANGED <<cBranches, cBefore, trieVars, scanVars, fmtVars, segVars, tokVars>>

ConcNext ==
    \E t \in Threads :
        \/ AddGetIndex(t)
        \/ AddCopyFront(t)
        \/ AddCopyBack(t)
        \/ AddSwap(t)
        \/ GetBranchIndex(t)
        \/ GetBranchRead(t)

SpecConc == ConcInit /\ [][ConcNext]_vars

\* C4 (as claimed): an insert running concurrently with lookups and other
\* inserts is serialized against them: a finished lookup of a character that
\* had a child before the threads started returns that child, no thread
\* stops on a write outside newBranches, and once every insert has finished
\* the node has a child for every character it had before and for every
\* character inserted.
C4_InsertSerialized ==
    /\ ~Crashed
    /\ \A t \in Readers :
           (cThreads[t].pc = "done" /\ cThreads[t].c \in cBefore)
               => cThreads[t].got = cThreads[t].c
    /\ (\A t \in Writers : cThreads[t].pc = "done")
           => /\ cBefore \subseteq Children(cBranches)
              /\ \A t \in Writers : cThreads[t].c \in Children(cBranches)

----------------------------------------------------------------------------
(* PinyinAlphabetTokenizer (pinyin_alphabet_tokenizer.cpp)                 *)

kPinyinMaxLength == 6

is_letter(c) == (c >= 97 /\ c <= 122) \/ (c >= 65 /\ c <= 90)

\* PinyinAlphabetDict::match: binary search of the sorted entries, which is
\* membership; the empty token never matches.
match(dict, token) == token # <<>> /\ token \in dict

ToLowerStr(str) == [k \in 1..Len(str) |-> tolower(str[k])]

RECURSIVE splitLoop(_, _, _, _, _)
\* the loop of splitByNoletter from 1-based index k on
splitLoop(str, k, result, buf, last_word) ==
    IF k > Len(str)
    THEN IF buf # <<>> THEN Append(result, buf) ELSE result
    ELSE IF is_letter(str[k])
         THEN IF ~last_word
              THEN splitLoop(str, k + 1, Append(result, buf), <<str[k]>>, TRUE)
              ELSE splitLoop(str, k + 1, result, Append(buf, str[k]), TRUE)
         ELSE IF last_word /\ buf # <<>>
              THEN splitLoop(str, k + 1, Append(result, buf), <<str[k]>>, FALSE)
              ELSE splitLoop(str, k + 1, result, Append(buf, str[k]), FALSE)

splitByNoletter(pinyin_str) == splitLoop(pinyin_str, 1, <<>>, <<>>, TRUE)

\* a match is pushed first, the unmatched characters buffered before it after
PushMatch(pinyin_list, guess, no_match_buffer) ==
    IF no_match_buffer # <<>>
    THEN pinyin_list \o <<guess, no_match_buffer>>
    ELSE Append(pinyin_list, guess)

Flush(pinyin_list, no_match_buffer) ==
    IF no_match_buffer # <<>> THEN Append(pinyin_list, no_match_buffer)
    ELSE pinyin_list

RECURSIVE positiveLoop(_, _, _, _, _, _)
\* the for loop of positiveMaxMatch; start is the 0-based index of the source
positiveLoop(dict, pinyin_text, max_length, start, pinyin_list, no_match_buffer) ==
    IF start >= Len(pinyin_text)
    THEN Flush(pinyin_list, no_match_buffer)
    ELSE LET end == Min(start + max_length, Len(pinyin_text))
             six_str == SubSeq(pinyin_text, start + 1, end)
             hits == {j \in 0..(Len(six_str) - 1) :
                         match(dict, SubSeq(six_str, 1, Len(six_str) - j))}
         IN  IF hits = {}
             THEN positiveLoop(dict, pinyin_text, max_length, start + 1,
                               pinyin_list, Append(no_match_buffer, six_str[1]))
             ELSE LET j == CHOOSE h \in hits : \A g \in hits : h <= g
                      guess == SubSeq(six_str, 1, Len(six_str) - j)
                  IN  positiveLoop(dict, pinyin_text, max_length,
                                   start + Len(guess),
                                   PushMatch(pinyin_list, guess, no_match_buffer),
                                   <<>>)

positiveMaxMatch(dict, pinyin_text, max_length) ==
    positiveLoop(dict, pinyin_text, max_length, 0, <<>>, <<>>)

Reverse(list) == [k \in 1..Len(list) |-> list[Len(list) + 1 - k]]

RECURSIVE reverseLoop(_, _, _, _, _, _)
\* the while loop of reverseMaxMatch; end is the exclusive 0-based end index
reverseLoop(dict, pinyin_text, max_length, end, pinyin_list, no_match_buffer) ==
    IF end <= 0
    THEN Flush(pinyin_list, no_match_buffer)
    ELSE LET start == IF end - max_length < 0 THEN 0 ELSE end - max_length
             six_str == SubSeq(pinyin_text, start + 1, end)
             hits == {j \in 0..(Len(six_str) - 1) :
                         match(dict, SubSeq(six_str, j + 1, Len(six_str)))}
         IN  IF hits = {}
             THEN reverseLoop(dict, pinyin_text, max_length, end - 1,
                              pinyin_list,
                              Append(no_match_buffer, six_str[Len(six_str)]))
             ELSE LET j == CHOOSE h \in hits : \A g \in hits : h <= g
                      guess == SubSeq(six_str, j + 1, Len(six_str))
                  IN  reverseLoop(dict, pinyin_text, max_length,
                                  end - Len(guess),
                                  PushMatch(pinyin_list, guess, no_match_buffer),
                                  <<>>)

reverseMaxMatch(dict, pinyin_text, max_length) ==
    Reverse(reverseLoop(dict, pinyin_text, max_length, Len(pinyin_text), <<>>, <<>>))

\* the tie-break of segPinyinStr decided the other way round
pickSegmentation_TiesBackward(forward, backward) ==
    IF Len(forward) < Len(backward) THEN forward ELSE backward

\* segPinyinStr, lines 120-128: the segmentation inserted for one letter span
pickSegmentation(forward, backward) ==
    IF Len(forward) = 1 THEN forward
    ELSE IF Len(forward) <= Len(backward) THEN forward ELSE backward

segmentSpan(dict, pinyin_text) ==
    IF Len(pinyin_text) = 1 THEN <<pinyin_text>>
    ELSE pickSegmentation(positiveMaxMatch(dict, pinyin_text, kPinyinMaxLength),
                          reverseMaxMatch(dict, pinyin_text, kPinyinMaxLength))

\* segPinyinStr with what it inserted for each element of pinyin_str_list
segPinyinTrace(dict, content) ==
    LET Parts(pinyin_str_list) ==
            [spans |-> pinyin_str_list,
             parts |-> [k \in 1..Len(pinyin_str_list) |->
                            segmentSpan(dict, pinyin_str_list[k])]]
    IN  Parts(splitByNoletter(ToLowerStr(content)))

segPinyinStr(dict, content) == Flatten(segPinyinTrace(dict, content).parts)

walk(dict, text_) == segPinyinStr(dict, text_)

----------------------------------------------------------------------------
(* Specification SpecSeg: walk called on texts, one dictionary loaded       *)

SegCh == [a |-> 97, b |-> 98, A |-> 65, five |-> 53]

SegAlphabet == {SegCh.a, SegCh.b, SegCh.A, SegCh.five}

\* an entry longer than kPinyinMaxLength, which no window can hold
LongEntry == <<97, 97, 98, 97, 97, 98, 97>>

\* entries a dictionary file may hold, already trimmed and lowercased by load
DictPool == {<<97>>, <<98>>, <<97, 97>>, <<97, 98>>, <<98, 97>>,
             <<97, 98, 97>>, LongEntry}

SegTexts == SeqsUpTo(SegAlphabet, MaxSegLen) \cup {LongEntry, Append(LongEntry, 98)}

SegInit ==
    /\ TrieIdle /\ ScanIdle /\ FmtIdle /\ ConcIdle /\ TokIdle
    /\ segDict \in SUBSET DictPool
    /\ segText = <<>>
    /\ segOut = NoWalk

Walk ==
    /\ ~segOut.called
    /\ \E t \in SegTexts :
        LET Returned(trace) ==
                segOut' = [called |-> TRUE, tokens |-> Flatten(trace.parts),
                           spans |-> trace.spans, parts |-> trace.parts]
        IN  /\ segText' = t
            /\ Returned(segPinyinTrace(segDict, t))
            /\ UNCHANGED <<segDict, trieVars, scanVars, fmtVars, concVars, tokVars>>

SegNext == Walk

SpecSeg == SegInit /\ [][SegNext]_vars

\* C11 (as claimed): the tokens walk returns, concatenated in output order,
\* are the lowercased input, for every text and every dictionary.
C11_ConcatIsLowercasedInput ==
    segOut.called => Flatten(segOut.tokens) = ToLowerStr(segText)

\* C12: for a letter span longer than one character the backward
\* segmentation is output only when it has strictly fewer tokens than the
\* forward one; on a tie, or when forward has fewer, forward is output.
C12_BackwardOnlyIfStrictlyFewer ==
    segOut.called =>
        \A k \in DOMAIN segOut.spans :
            LET span == segOut.spans[k]
                Decide(forward, backward) ==
                    IF Len(backward) < Len(forward)
                    THEN segOut.parts[k] = backward
                    ELSE segOut.parts[k] = forward
            IN  (is_letter(span[1]) /\ Len(span) > 1)
                    => Decide(positiveMaxMatch(segDict, span, kPinyinMaxLength),
                              reverseMaxMatch(segDict, span, kPinyinMaxLength))

\* a span whose backward segmentation has fewer tokens and was output
C12_Witness ==
    /\ segOut.called
    /\ \E k \in DOMAIN segOut.spans :
           LET Fewer(forward, backward) ==
                   /\ Len(backward) < Len(forward)
                   /\ segOut.parts[k] = backward
           IN  Fewer(positiveMaxMatch(segDict, segOut.spans[k], kPinyinMaxLength),
                     reverseMaxMatch(segDict, segOut.spans[k], kPinyinMaxLength))

----------------------------------------------------------------------------
(* PinyinTokenizer (pinyin_tokenizer.cpp)                                  *)

LUCENE_MAX_WORD_LEN == 255

\* PinyinFormat::TONELESS_PINYIN_FORMAT
TONELESS_PINYIN_FORMAT == [DefaultFormat EXCEPT !.yu = "WITH_V", !.tone = "WITHOUT_TONE"]

RECURSIVE FormatCodepoints(_, _)
\* the formatting loop of convert(codepoints, format)
FormatCodepoints(raw_result, format) ==
    IF raw_result = <<>> THEN <<>>
    ELSE LET Rest(formatted) ==
                 IF formatted # <<>> \/ ~format.onlyPinyin
                 THEN <<formatted>> \o FormatCodepoints(Tail(raw_result), format)
                 ELSE FormatCodepoints(Tail(raw_result), format)
         IN  IF Head(raw_result) = <<>>
             THEN IF format.onlyPinyin
                  THEN FormatCodepoints(Tail(raw_result), format)
                  ELSE <<<<>>>> \o FormatCodepoints(Tail(raw_result), format)
             ELSE Rest(formatPinyin(Head(raw_result), format))

\* PinyinTokenizer::codepointsToUtf8
codepointsToUtf8(codepoints) ==
    Flatten([k \in 1..Len(codepoints) |-> U8_APPEND_UNSAFE(codepoints[k])])

\* PinyinUtil::convert(const std::vector<UChar32>&, format), polyphone_dict_ loaded
convertCodepoints(root, codepoints, format) ==
    IF codepoints = <<>> THEN <<>>
    ELSE FormatCodepoints(convert_with_raw_pinyin(root, codepointsToUtf8(codepoints)).raw,
                          format)

\* ChineseUtil::segmentChinese(const std::vector<UChar32>&)
segmentChinese(codepoints) ==
    [k \in 1..Len(codepoints) |->
        IF codepoints[k] >= CJK_START /\ codepoints[k] <= CJK_END
        THEN U8_APPEND_UNSAFE(codepoints[k]) ELSE <<>>]

RECURSIVE decodeLoop_DropInvalid(_, _, _)
\* variant: an ill-formed sequence is skipped
decodeLoop_DropInvalid(char_buffer, i, runes) ==
    LET Push(n) ==
            decodeLoop_DropInvalid(char_buffer, n.i,
                IF n.c < 0 THEN runes
                ELSE Append(runes, [cp |-> n.c, byte_start |-> i, byte_end |-> n.i]))
    IN  IF i >= Len(char_buffer) THEN runes ELSE Push(U8_NEXT(char_buffer, i))

RECURSIVE decodeLoop(_, _, _)
\* the while loop of decode_to_runes from 0-based byte index i on
decodeLoop(char_buffer, i, runes) ==
    LET Push(n) ==
            decodeLoop(char_buffer, n.i,
                       Append(runes, [cp |-> IF n.c < 0 THEN 65533 ELSE n.c,
                                      byte_start |-> i, byte_end |-> n.i]))
    IN  IF i >= Len(char_buffer) THEN runes ELSE Push(U8_NEXT(char_buffer, i))

\* PinyinTokenizer::decode_to_runes: runes_; source_codepoints_ is its cp column
decode_to_runes(char_buffer) ==
    IF char_buffer = <<>> THEN <<>> ELSE decodeLoop(char_buffer, 0, <<>>)

TermItem(term, start_offset, end_offset, position) ==
    [term |-> term, start_offset |-> start_offset, end_offset |-> end_offset,
     position |-> position]

RECURSIVE StrLess(_, _)
\* std::string operator<: bytes compared as unsigned char, a prefix first
StrLess(a, b) ==
    IF b = <<>> THEN FALSE
    ELSE IF a = <<>> THEN TRUE
    ELSE IF Head(a) # Head(b) THEN Head(a) < Head(b)
    ELSE StrLess(Tail(a), Tail(b))

\* TermItem::operator<: by term, then start offset, end offset, position
TermLess(a, b) ==
    IF a.term # b.term THEN StrLess(a.term, b.term)
    ELSE IF a.start_offset # b.start_offset THEN a.start_offset < b.start_offset
    ELSE IF a.end_offset # b.end_offset THEN a.end_offset < b.end_offset
    ELSE a.position < b.position

RECURSIVE InsertSorted(_, _)
InsertSorted(x, list) ==
    IF list = <<>> THEN <<x>>
    ELSE IF TermLess(x, Head(list)) THEN <<x>> \o list
    ELSE <<Head(list)>> \o InsertSorted(x, Tail(list))

RECURSIVE sort(_)
\* std::sort(candidate_.begin(), candidate_.end())
sort(list) == IF list = <<>> THEN <<>> ELSE InsertSorted(Head(list), sort(Tail(list)))

\* std::isspace in the "C" locale
isspace(ch) == ch = 32 \/ (ch >= 9 /\ ch <= 13)

RECURSIVE TrimLeft(_)
TrimLeft(term) ==
    IF term # <<>> /\ isspace(Head(term)) THEN TrimLeft(Tail(term)) ELSE term

RECURSIVE TrimRight(_)
TrimRight(term) ==
    IF term # <<>> /\ isspace(term[Len(term)])
    THEN TrimRight(SubSeq(term, 1, Len(term) - 1)) ELSE term

RECURSIVE to_string(_)
\* std::to_string(int)
to_string(n) ==
    IF n < 0 THEN <<45>> \o to_string(0 - n)
    ELSE IF n < 10 THEN <<48 + n>>
    ELSE to_string(n \div 10) \o <<48 + (n % 10)>>

\* addCandidate, lines 370-383: the term after lowercase and trimWhitespace
NormalizeTerm(config, term) ==
    LET Trim(lowered) ==
            IF config.trimWhitespace THEN TrimRight(TrimLeft(lowered)) ELSE lowered
    IN  Trim(IF config.lowercase THEN ToLowerStr(term) ELSE term)

\* variant: the position is part of the key whatever removeDuplicateTerm says
DedupKey_WithPosition(config, term, position) == term \o to_string(position)

\* addCandidate, line 390
DedupKey(config, term, position) ==
    IF config.removeDuplicateTerm THEN term ELSE term \o to_string(position)

\* PinyinTokenizer::addCandidate(const TermItem&); offered_ records every
\* non-empty item it was called with, in call order
addCandidate(t, item_in) ==
    LET Insert(term) ==
            IF term = <<>> THEN t
            ELSE IF DedupKey(t.config_, term, item_in.position) \in t.terms_filter_
            THEN [t EXCEPT !.offered_ = Append(@, [item_in EXCEPT !.term = term])]
            ELSE [t EXCEPT
                    !.offered_ = Append(@, [item_in EXCEPT !.term = term]),
                    !.terms_filter_ = @ \cup {DedupKey(t.config_, term, item_in.position)},
                    !.candidate_ = Append(@, [item_in EXCEPT !.term = term])]
    IN  Insert(NormalizeTerm(t.config_, item_in.term))

\* addCandidate(term, start_offset, end_offset, position)
addCandidate4(t, term, start_offset, end_offset, position) ==
    addCandidate(t, TermItem(term, start_offset, end_offset, position))

\* position_++ followed by addCandidate(term, start, end, position_)
addAtNextPosition(t, term, start_offset, end_offset) ==
    addCandidate4([t EXCEPT !.position_ = @ + 1], term, start_offset, end_offset,
                  t.position_ + 1)

RECURSIVE parseWalk(_, _, _, _)
\* parseBuff, lines 487-493: one candidate per token of walk
parseWalk(t, dict, result, start) ==
    IF result = <<>> THEN t
    ELSE LET end == IF t.config_.fixedPinyinOffset THEN start + 1
                    ELSE start + Len(Head(result))
         IN  parseWalk(addAtNextPosition(t, Head(result), start, end), dict,
                       Tail(result), end)

\* PinyinTokenizer::parseBuff; the caller's ascii_buff and ascii_buff_start
\* are cleared by ClearBuff
parseBuff(t, dict, ascii_buff, ascii_buff_start) ==
    IF ascii_buff = <<>> THEN t
    ELSE IF ~t.config_.keepNoneChinese THEN t
    ELSE IF t.config_.noneChinesePinyinTokenize
    THEN parseWalk(t, dict, walk(dict, ascii_buff), ascii_buff_start)
    ELSE IF t.config_.keepFirstLetter \/ t.config_.keepSeparateFirstLetter
            \/ t.config_.keepFullPinyin
            \/ ~t.config_.keepNoneChineseInJoinedFullPinyin
    THEN addAtNextPosition(t, ascii_buff, ascii_buff_start,
                           ascii_buff_start + Len(ascii_buff))
    ELSE t

\* the locals of processInput that live across iterations of the rune loop
NoBuff == [ascii_buff |-> <<>>, ascii_buff_start |-> -1, ascii_buff_char_start |-> -1]

is_alnum(cp) ==
    (cp >= 97 /\ cp <= 122) \/ (cp >= 65 /\ cp <= 90) \/ (cp >= 48 /\ cp <= 57)

\* processInput, lines 175-200: one rune with 0 <= cp < 128
asciiLocals(config, loc, r, char_index) ==
    [ascii_buff |->
        IF is_alnum(r.cp) /\ config.keepNoneChinese /\ config.keepNoneChineseTogether
        THEN Append(loc.ascii_buff, r.cp) ELSE loc.ascii_buff,
     ascii_buff_start |->
        IF loc.ascii_buff_start < 0 THEN r.byte_start ELSE loc.ascii_buff_start,
     ascii_buff_char_start |->
        IF loc.ascii_buff_char_start < 0 THEN char_index ELSE loc.ascii_buff_char_start]

asciiSingle(t, loc1, r) ==
    IF is_alnum(r.cp) /\ t.config_.keepNoneChinese /\ ~t.config_.keepNoneChineseTogether
    THEN addCandidate4([t EXCEPT !.position_ = @ + 1], <<r.cp>>, r.byte_start,
                       r.byte_end, loc1.ascii_buff_char_start + 1)
    ELSE t

asciiJoined(t, r) ==
    [t EXCEPT
        !.first_letters_ =
            IF is_alnum(r.cp) /\ t.config_.keepNoneChineseInFirstLetter
            THEN Append(@, r.cp) ELSE @,
        !.full_pinyin_letters_ =
            IF is_alnum(r.cp) /\ t.config_.keepNoneChineseInJoinedFullPinyin
            THEN Append(@, r.cp) ELSE @]

\* processInput, lines 218-243: one rune outside ASCII with a reading
chineseFirstLetter(t, r, pinyin) ==
    IF t.config_.keepSeparateFirstLetter /\ Len(pinyin) > 1
    THEN addAtNextPosition([t EXCEPT !.first_letters_ = Append(@, pinyin[1])],
                           <<pinyin[1]>>, r.byte_start, r.byte_end)
    ELSE [t EXCEPT !.first_letters_ = Append(@, pinyin[1])]

chineseFullPinyin(t, r, pinyin) ==
    IF ~t.config_.keepFullPinyin THEN t
    ELSE IF t.config_.keepSeparateFirstLetter /\ Len(pinyin) > 1
    THEN addCandidate4(t, pinyin, r.byte_start, r.byte_end, t.position_)
    ELSE addAtNextPosition(t, pinyin, r.byte_start, r.byte_end)

chineseSeparate(t, r, chinese) ==
    IF t.config_.keepSeparateChinese
    THEN addCandidate4(t, chinese, r.byte_start, r.byte_end, t.position_)
    ELSE t

chineseJoined(t, pinyin) ==
    IF t.config_.keepJoinedFullPinyin
    THEN [t EXCEPT !.full_pinyin_letters_ = @ \o pinyin]
    ELSE t

chineseRune(t, r, pinyin, chinese) ==
    IF pinyin = <<>> THEN t
    ELSE chineseJoined(
             chineseSeparate(
                 chineseFullPinyin(chineseFirstLetter(t, r, pinyin), r, pinyin),
                 r, chinese),
             pinyin)

setLastOffset(t, r) == [t EXCEPT !.last_offset_ = r.byte_end - 1]

RECURSIVE runeLoop(_, _, _, _, _, _)
\* the loop over runes_ of processInput; k is char_index + 1
runeLoop(t, dict, loc, k, pinyin_list, chinese_list) ==
    IF k > Len(t.runes_)
    THEN \* lines 252-257: the remaining ASCII buffer
         IF loc.ascii_buff # <<>>
         THEN parseBuff(t, dict, loc.ascii_buff, loc.ascii_buff_start)
         ELSE t
    ELSE LET r == t.runes_[k]
             pinyin == IF k <= Len(pinyin_list) THEN pinyin_list[k] ELSE <<>>
             chinese == IF k <= Len(chinese_list) THEN chinese_list[k] ELSE <<>>
             Ascii(loc1) ==
                 runeLoop(setLastOffset(asciiJoined(asciiSingle(t, loc1, r), r), r),
                          dict, loc1, k + 1, pinyin_list, chinese_list)
         IN  IF r.cp >= 0 /\ r.cp < 128
             THEN Ascii(asciiLocals(t.config_, loc, r, k - 1))
             ELSE IF loc.ascii_buff # <<>>
             THEN runeLoop(setLastOffset(
                               chineseRune(parseBuff(t, dict, loc.ascii_buff,
                                                     loc.ascii_buff_start),
                                           r, pinyin, chinese), r),
                           dict, NoBuff, k + 1, pinyin_list, chinese_list)
             ELSE runeLoop(setLastOffset(chineseRune(t, r, pinyin, chinese), r),
                           dict, loc, k + 1, pinyin_list, chinese_list)

\* processInput, lines 99-262
generateCandidates(t, root, dict) ==
    LET Lists(pinyin_list, chinese_list) ==
            IF pinyin_list = <<>> \/ chinese_list = <<>> THEN [t |-> t, returned |-> TRUE]
            ELSE IF t.runes_ = <<>> THEN [t |-> t, returned |-> TRUE]
            ELSE [t |-> runeLoop([t EXCEPT !.position_ = 0], dict, NoBuff, 1,
                                 pinyin_list, chinese_list),
                  returned |-> FALSE]
    IN  Lists(convertCodepoints(root, t.source_codepoints_, TONELESS_PINYIN_FORMAT),
              segmentChinese(t.source_codepoints_))

\* processInput, lines 265-270
addOriginal(t) ==
    IF t.config_.keepOriginal /\ ~t.processed_original_
    THEN addCandidate4([t EXCEPT !.processed_original_ = TRUE],
                       codepointsToUtf8(t.source_codepoints_), 0,
                       Len(codepointsToUtf8(t.source_codepoints_)), 1)
    ELSE t

\* processInput, lines 271-279
addJoinedFullPinyin(t) ==
    IF t.config_.keepJoinedFullPinyin /\ ~t.processed_full_pinyin_letter_
       /\ t.full_pinyin_letters_ # <<>>
    THEN [addCandidate4([t EXCEPT !.processed_full_pinyin_letter_ = TRUE],
                        t.full_pinyin_letters_, 0,
                        Len(codepointsToUtf8(t.source_codepoints_)), 1)
          EXCEPT !.full_pinyin_letters_ = <<>>]
    ELSE t

\* processInput, lines 282-294: fl
firstLetterTerm(t) ==
    LET Lower(fl) == IF t.config_.lowercase THEN ToLowerStr(fl) ELSE fl
    IN  Lower(IF t.config_.limitFirstLetterLength > 0
                 /\ Len(t.first_letters_) > t.config_.limitFirstLetterLength
              THEN SubSeq(t.first_letters_, 1, t.config_.limitFirstLetterLength)
              ELSE t.first_letters_)

\* variant: the candidate is left out by the length of the accumulator, not
\* of the capped string
addFirstLetters_ByAccumulator(t) ==
    IF t.config_.keepFirstLetter /\ t.first_letters_ # <<>> /\ ~t.processed_first_letter_
    THEN IF ~(t.config_.keepSeparateFirstLetter /\ Len(t.first_letters_) <= 1)
         THEN addCandidate4([t EXCEPT !.processed_first_letter_ = TRUE],
                            firstLetterTerm(t), 0, Len(firstLetterTerm(t)), 1)
         ELSE [t EXCEPT !.processed_first_letter_ = TRUE]
    ELSE t

\* processInput, lines 280-301
addFirstLetters(t) ==
    IF t.config_.keepFirstLetter /\ t.first_letters_ # <<>> /\ ~t.processed_first_letter_
    THEN IF ~(t.config_.keepSeparateFirstLetter /\ Len(firstLetterTerm(t)) <= 1)
         THEN addCandidate4([t EXCEPT !.processed_first_letter_ = TRUE],
                            firstLetterTerm(t), 0, Len(firstLetterTerm(t)), 1)
         ELSE [t EXCEPT !.processed_first_letter_ = TRUE]
    ELSE t

\* variant: the candidates are served in insertion order
sortCandidates_Unsorted(t) ==
    IF ~t.processed_sort_candidate_
    THEN [t EXCEPT !.processed_sort_candidate_ = TRUE]
    ELSE t

\* processInput, lines 303-308
sortCandidates(t) ==
    IF ~t.processed_sort_candidate_
    THEN [t EXCEPT !.processed_sort_candidate_ = TRUE, !.candidate_ = sort(@)]
    ELSE t

\* PinyinTokenizer::processInput
processInput(t, root, dict) ==
    LET Generated(g) ==
            IF g.returned THEN g.t
            ELSE sortCandidates(addFirstLetters(addJoinedFullPinyin(addOriginal(g.t))))
    IN  IF ~t.processed_candidate_
        THEN Generated(generateCandidates([t EXCEPT !.processed_candidate_ = TRUE],
                                          root, dict))
        ELSE sortCandidates(addFirstLetters(addJoinedFullPinyin(addOriginal(t))))

\* variant: the increment is the plain difference
positionIncrement_Unclamped(position, last_increment_position) ==
    position - last_increment_position

\* next, lines 351-353
positionIncrement(position, last_increment_position) ==
    IF position - last_increment_position < 0 THEN 0
    ELSE position - last_increment_position

\* next, lines 341-354: the Token filled from a candidate
TokenOf(item, last_increment_position) ==
    [null |-> FALSE,
     term |-> SubSeq(item.term, 1, Min(Len(item.term), LUCENE_MAX_WORD_LEN)),
     start_offset |-> item.start_offset,
     end_offset |-> item.end_offset,
     position_increment |-> positionIncrement(item.position, last_increment_position)]

\* variant: once the list is used up the cursor goes back to its start
serve_Again(t) ==
    IF t.candidate_offset_ < Len(t.candidate_)
    THEN [t |-> [t EXCEPT !.candidate_offset_ = @ + 1,
                          !.last_increment_position_ =
                              t.candidate_[t.candidate_offset_ + 1].position],
          token |-> TokenOf(t.candidate_[t.candidate_offset_ + 1],
                            t.last_increment_position_)]
    ELSE [t |-> [t EXCEPT !.done_ = TRUE, !.candidate_offset_ = 0],
          token |-> [null |-> TRUE]]

\* next, lines 331-365: the tokenizer afterwards and the token, if any
serve(t) ==
    IF t.candidate_offset_ < Len(t.candidate_)
    THEN [t |-> [t EXCEPT !.candidate_offset_ = @ + 1,
                          !.last_increment_position_ =
                              t.candidate_[t.candidate_offset_ + 1].position],
          token |-> TokenOf(t.candidate_[t.candidate_offset_ + 1],
                            t.last_increment_position_)]
    ELSE [t |-> [t EXCEPT !.done_ = TRUE], token |-> [null |-> TRUE]]

\* PinyinTokenizer::next
next(t, root, dict) ==
    IF ~t.done_
    THEN serve([processInput(t, root, dict) EXCEPT !.done_ = TRUE])
    ELSE serve(t)

\* variant: reset() leaves the dedup filter of the previous document in place
reset_KeepFilter(t, input) ==
    [t EXCEPT
        !.position_ = 0, !.candidate_offset_ = 0, !.done_ = FALSE,
        !.processed_candidate_ = FALSE, !.processed_first_letter_ = FALSE,
        !.processed_full_pinyin_letter_ = FALSE, !.processed_original_ = FALSE,
        !.processed_sort_candidate_ = FALSE,
        !.first_letters_ = <<>>, !.full_pinyin_letters_ = <<>>,
        !.candidate_ = <<>>, !.offered_ = <<>>,
        !.last_increment_position_ = 0, !.last_offset_ = 0,
        !.char_buffer = input,
        !.runes_ = decode_to_runes(input),
        !.source_codepoints_ =
            [k \in 1..Len(decode_to_runes(input)) |-> decode_to_runes(input)[k].cp]]

\* PinyinTokenizer::reset, with input the bytes _in->read hands over
reset(t, input) ==
    [t EXCEPT
        !.position_ = 0, !.candidate_offset_ = 0, !.done_ = FALSE,
        !.processed_candidate_ = FALSE, !.processed_first_letter_ = FALSE,
        !.processed_full_pinyin_letter_ = FALSE, !.processed_original_ = FALSE,
        !.processed_sort_candidate_ = FALSE,
        !.first_letters_ = <<>>, !.full_pinyin_letters_ = <<>>,
        !.terms_filter_ = {}, !.candidate_ = <<>>, !.offered_ = <<>>,
        !.last_increment_position_ = 0, !.last_offset_ = 0,
        !.char_buffer = input,
        !.runes_ = decode_to_runes(input),
        !.source_codepoints_ =
            [k \in 1..Len(decode_to_runes(input)) |-> decode_to_runes(input)[k].cp]]

\* variant: keepSeparateChinese is not looked at
KeepsSomething_NoChinese(config) ==
    config.keepFirstLetter \/ config.keepSeparateFirstLetter \/ config.keepFullPinyin
        \/ config.keepJoinedFullPinyin

\* the constructor, lines 45-46
KeepsSomething(config) ==
    config.keepFirstLetter \/ config.keepSeparateFirstLetter \/ config.keepFullPinyin
        \/ config.keepJoinedFullPinyin \/ config.keepSeparateChinese

\* PinyinTokenizer(config): the members the constructor does not assign are
\* indeterminate until reset(); junk and n stand for what they hold
PinyinTokenizer(config, junk, n) ==
    [config_ |-> config,
     done_ |-> junk, processed_candidate_ |-> junk, processed_sort_candidate_ |-> junk,
     processed_first_letter_ |-> junk, processed_full_pinyin_letter_ |-> junk,
     processed_original_ |-> junk,
     position_ |-> n, last_offset_ |-> n, candidate_offset_ |-> n,
     last_increment_position_ |-> n,
     candidate_ |-> <<>>, terms_filter_ |-> {}, offered_ |-> <<>>,
     first_letters_ |-> <<>>, full_pinyin_letters_ |-> <<>>,
     char_buffer |-> <<>>, runes_ |-> <<>>, source_codepoints_ |-> <<>>]

----------------------------------------------------------------------------
(* Specification SpecTok: one PinyinTokenizer, constructed, reset on         *)
(* documents and pulled with next()                                         *)

\* a PinyinConfig with the flags of the stock configuration
BaseConfig ==
    [keepFirstLetter |-> TRUE, keepSeparateFirstLetter |-> FALSE,
     keepFullPinyin |-> TRUE, keepJoinedFullPinyin |-> FALSE,
     keepSeparateChinese |-> FALSE, keepNoneChinese |-> TRUE,
     keepNoneChineseTogether |-> TRUE, keepNoneChineseInFirstLetter |-> TRUE,
     keepNoneChineseInJoinedFullPinyin |-> FALSE, noneChinesePinyinTokenize |-> TRUE,
     keepOriginal |-> FALSE, limitFirstLetterLength |-> 16, lowercase |-> TRUE,
     trimWhitespace |-> TRUE, removeDuplicateTerm |-> FALSE,
     fixedPinyinOffset |-> FALSE]

\* every setting of the five flags the constructor validates
KeepConfigs ==
    {[BaseConfig EXCEPT !.keepFirstLetter = k[1], !.keepSeparateFirstLetter = k[2],
                        !.keepFullPinyin = k[3], !.keepJoinedFullPinyin = k[4],
                        !.keepSeparateChinese = k[5]] :
        k \in [1..5 -> BOOLEAN]}

\* settings of the other flags
OtherConfigs ==
    {[BaseConfig EXCEPT !.removeDuplicateTerm = TRUE],
     [BaseConfig EXCEPT !.removeDuplicateTerm = TRUE, !.keepNoneChineseTogether = FALSE,
                        !.keepSeparateChinese = TRUE, !.keepOriginal = TRUE],
     [BaseConfig EXCEPT !.keepNoneChineseTogether = FALSE],
     [BaseConfig EXCEPT !.noneChinesePinyinTokenize = FALSE],
     [BaseConfig EXCEPT !.keepOriginal = TRUE, !.trimWhitespace = FALSE],
     [BaseConfig EXCEPT !.keepOriginal = TRUE, !.lowercase = FALSE],
     [BaseConfig EXCEPT !.keepSeparateFirstLetter = TRUE, !.limitFirstLetterLength = 1],
     [BaseConfig EXCEPT !.keepNoneChinese = FALSE],
     [BaseConfig EXCEPT !.keepNoneChineseInFirstLetter = FALSE],
     [BaseConfig EXCEPT !.keepJoinedFullPinyin = TRUE,
                        !.keepNoneChineseInJoinedFullPinyin = TRUE],
     [BaseConfig EXCEPT !.fixedPinyinOffset = TRUE]}

Configs == KeepConfigs \cup OtherConfigs

\* the pieces documents are made of: a CJK rune, a letter, and a lead byte
\* with no trail byte
TokUnits == {Encode(<<CP.zhong>>), <<97>>, <<228>>}

\* documents with an uppercase letter, a digit, a space, a lone trail byte, a
\* truncated rune, a CJK rune between a letter and a digit, and a document
\* of twelve words: U+4E2D, a1, U+4E2D nine times, a
TokExtraTexts ==
    {<<65, 97>>, <<97, 65>>, <<53>>, <<32, 97>>, <<97, 32, 53>>, <<184>>,
     <<228, 184, 97>>, <<32>> \o Encode(<<CP.zhong>>) \o <<97>>,
     <<97>> \o Encode(<<CP.zhong>>) \o <<53>>,
     Encode(<<CP.zhong>>) \o <<97, 49>>
         \o Encode([k \in 1..9 |-> CP.zhong]) \o <<97>>}

TokTexts ==
    {Flatten(units) : units \in SeqsUpTo(TokUnits, MaxTokLen)} \cup TokExtraTexts

\* the syllable dictionary walk() runs against
TokDict == {<<97>>}

TokInit ==
    /\ TrieIdle /\ ScanIdle /\ FmtIdle /\ ConcIdle
    /\ segDict = TokDict /\ segText = <<>> /\ segOut = NoWalk
    /\ tokenizer = NoTokenizer
    /\ tokRet = NoRet
    /\ tokOut = <<>>

Construct ==
    \E config \in Configs, junk \in BOOLEAN, n \in {0, 3} :
        /\ tokenizer = NoTokenizer
        /\ tokRet = NoRet
        /\ IF KeepsSomething(config)
           THEN /\ tokenizer' = PinyinTokenizer(config, junk, n)
                /\ tokRet' = [op |-> "PinyinTokenizer", config |-> config,
                              error |-> "OK"]
           ELSE /\ tokenizer' = NoTokenizer
                /\ tokRet' = [op |-> "PinyinTokenizer", config |-> config,
                              error |-> "INVALID_ARGUMENT"]
        /\ UNCHANGED <<tokOut, trieVars, scanVars, fmtVars, concVars, segVars>>

Reset ==
    \E input \in TokTexts :
        /\ tokenizer # NoTokenizer
        /\ tokenizer' = reset(tokenizer, input)
        /\ tokRet' = [op |-> "reset",
                      reused |-> tokOut # <<>>
                                     \/ (tokRet.op \in {"reset", "next"} /\ tokRet.reused)]
        /\ tokOut' = <<>>
        /\ UNCHANGED <<trieVars, scanVars, fmtVars, concVars, segVars>>

\* the token stream protocol calls reset() before the first next()
NextToken ==
    /\ tokenizer # NoTokenizer
    /\ tokRet.op \in {"reset", "next"}
    /\ LET Returned(r) ==
               /\ tokenizer' = r.t
               /\ tokRet' = [op |-> "next", token |-> r.token, reused |-> tokRet.reused]
               /\ tokOut' = IF r.token.null THEN tokOut ELSE Append(tokOut, r.token)
       IN  Returned(next(tokenizer, forest, segDict))
    /\ UNCHANGED <<trieVars, scanVars, fmtVars, concVars, segVars>>

TokNext == Construct \/ Reset \/ NextToken

SpecTok == TokInit /\ [][TokNext]_vars

\* the candidates of the tokenizer, once a document has been handed over
Candidates == tokenizer.candidate_

Resetted == tokenizer # NoTokenizer /\ tokRet.op \in {"reset", "next"}

\* C13: with removeDuplicateTerm on, no two candidates have the same term; a
\* term offered again is dropped whatever its position and offsets, and the
\* candidate kept for a term is the first one offered with it.
C13_OneCandidatePerTerm ==
    (Resetted /\ tokenizer.config_.removeDuplicateTerm) =>
        /\ \A i, j \in DOMAIN Candidates :
               i # j => Candidates[i].term # Candidates[j].term
        /\ \A i \in DOMAIN Candidates :
               \E k \in DOMAIN tokenizer.offered_ : Candidates[i] = tokenizer.offered_[k]
        /\ \A k \in DOMAIN tokenizer.offered_ :
               LET first == CHOOSE m \in 1..k :
                                /\ tokenizer.offered_[m].term = tokenizer.offered_[k].term
                                /\ \A n \in 1..(m - 1) :
                                       tokenizer.offered_[n].term
                                           # tokenizer.offered_[k].term
               IN  \E i \in DOMAIN Candidates :
                       Candidates[i] = tokenizer.offered_[first]

\* a term offered twice at different positions, one candidate with it
C13_Witness ==
    /\ Resetted /\ tokenizer.config_.removeDuplicateTerm
    /\ tokRet.op = "next"
    /\ \E k, m \in DOMAIN tokenizer.offered_ :
           /\ k < m
           /\ tokenizer.offered_[k].term = tokenizer.offered_[m].term
           /\ tokenizer.offered_[k].position # tokenizer.offered_[m].position
           /\ tokenizer.offered_[k].start_offset # tokenizer.offered_[m].start_offset
           /\ \E i \in DOMAIN Candidates : Candidates[i] = tokenizer.offered_[k]

\* (term, start_byte, end_byte, position) of a before that of b
Ascending(a, b) ==
    \/ StrLess(a.term, b.term)
    \/ a.term = b.term /\ a.start_offset < b.start_offset
    \/ a.term = b.term /\ a.start_offset = b.start_offset /\ a.end_offset < b.end_offset
    \/ /\ a.term = b.term /\ a.start_offset = b.start_offset
       /\ a.end_offset = b.end_offset /\ a.position < b.position

RECURSIVE drain(_, _, _, _)
\* next() called until it returns no token: the tokens in order
drain(t, root, dict, out) ==
    LET Step(r) == IF r.token.null THEN out
                   ELSE drain(r.t, root, dict, Append(out, r.token))
    IN  Step(next(t, root, dict))

\* the token sequence of a fresh tokenizer for a document
FreshRun(config, root, dict, input) ==
    drain(reset(PinyinTokenizer(config, FALSE, 0), input), root, dict, <<>>)

\* C15: the tokens a tokenizer gives for a document are those a fresh
\* tokenizer with the same Config and dictionaries gives for it, whatever the
\* object was constructed with and whatever it tokenized before the reset.
C15_SameTokensAsFreshRun ==
    Resetted =>
        LET Same(fresh) ==
                /\ IsPrefix(tokOut, fresh)
                /\ (tokRet.op = "next" /\ tokRet.token.null) => tokOut = fresh
        IN  Same(FreshRun(tokenizer.config_, forest, segDict, tokenizer.char_buffer))

\* a second or later document served to its end through a used tokenizer
C15_Witness ==
    /\ Resetted /\ tokRet.op = "next" /\ tokRet.token.null
    /\ tokRet.reused
    /\ Len(tokOut) >= 2

\* C16: the i-th token since reset() carries max(0, position of the i-th
\* candidate - position of the (i-1)-th), with 0 in place of the latter for
\* the first token; no increment is negative.
C16_PositionIncrement ==
    Resetted =>
        \A i \in DOMAIN tokOut :
            LET last_position == IF i = 1 THEN 0 ELSE Candidates[i - 1].position
                diff == Candidates[i].position - last_position
            IN  /\ tokOut[i].position_increment = IF diff > 0 THEN diff ELSE 0
                /\ tokOut[i].position_increment >= 0

\* a served token whose candidate lies at a smaller position than the one
\* served before it, after a token with a positive increment
C16_Witness ==
    /\ Resetted
    /\ \E i \in DOMAIN tokOut :
           /\ i > 1
           /\ Candidates[i].position < Candidates[i - 1].position
           /\ tokOut[i].position_increment = 0
           /\ tokOut[i - 1].position_increment > 0

\* C17: the first next() after reset() builds the whole list, and no later
\* next() changes it; each next() returns the candidate after the ones
\* already returned, and no token once all have been returned.
C17_ServedOnceInListOrder ==
    [][(tokenizer # NoTokenizer /\ tokRet'.op = "next") =>
           /\ tokenizer'.done_ /\ tokenizer'.processed_candidate_
           /\ tokenizer.done_ => tokenizer'.candidate_ = tokenizer.candidate_
           /\ IF Len(tokOut) < Len(tokenizer'.candidate_)
              THEN /\ ~tokRet'.token.null
                   /\ tokOut' = Append(tokOut, tokRet'.token)
                   /\ tokRet'.token.term = tokenizer'.candidate_[Len(tokOut) + 1].term
                   /\ tokRet'.token.start_offset
                          = tokenizer'.candidate_[Len(tokOut) + 1].start_offset
                   /\ tokRet'.token.end_offset
                          = tokenizer'.candidate_[Len(tokOut) + 1].end_offset
              ELSE tokRet'.token.null /\ tokOut' = tokOut]_vars

\* every candidate of a list of two or more served, then no token
C17_Witness ==
    /\ Resetted /\ tokRet.op = "next" /\ tokRet.token.null
    /\ Len(Candidates) >= 2
    /\ Len(tokOut) = Len(Candidates)

\* C18: the constructor fails with INVALID_ARGUMENT exactly when the five
\* keep flags are all false, and gives a tokenizer otherwise.
C18_InvalidConfigRejected ==
    tokRet.op = "PinyinTokenizer" =>
        LET all_off == /\ ~tokRet.config.keepFirstLetter
                       /\ ~tokRet.config.keepSeparateFirstLetter
                       /\ ~tokRet.config.keepFullPinyin
                       /\ ~tokRet.config.keepJoinedFullPinyin
                       /\ ~tokRet.config.keepSeparateChinese
        IN  /\ (tokRet.error = "INVALID_ARGUMENT") <=> all_off
            /\ (tokRet.error = "OK") <=> ~all_off
            /\ (tokenizer # NoTokenizer) <=> ~all_off

\* a construction that failed
C18_Witness ==
    /\ tokRet.op = "PinyinTokenizer"
    /\ tokRet.error = "INVALID_ARGUMENT"
    /\ tokenizer = NoTokenizer

\* C19: the byte ranges of the runes tile the input, none is empty, a rune
\* that is not the encoding of its code point is U+FFFD, and a non-empty
\* input has a rune.
C19_RunesTileInput ==
    Resetted =>
        LET runes == tokenizer.runes_
            input == tokenizer.char_buffer
        IN  /\ input # <<>> => runes # <<>>
            /\ runes # <<>> => /\ runes[1].byte_start = 0
                               /\ runes[Len(runes)].byte_end = Len(input)
            /\ \A k \in DOMAIN runes :
                   /\ runes[k].byte_start < runes[k].byte_end
                   /\ k < Len(runes) => runes[k].byte_end = runes[k + 1].byte_start
                   /\ \/ runes[k].cp = 65533
                      \/ U8_APPEND_UNSAFE(runes[k].cp)
                             = SubSeq(input, runes[k].byte_start + 1, runes[k].byte_end)
            /\ tokenizer.source_codepoints_ = [k \in DOMAIN runes |-> runes[k].cp]

\* an ill-formed sequence of two bytes decoded to one U+FFFD rune, next to
\* another rune
C19_Witness ==
    /\ Resetted
    /\ Len(tokenizer.runes_) >= 2
    /\ \E k \in DOMAIN tokenizer.runes_ :
           /\ tokenizer.runes_[k].cp = 65533
           /\ tokenizer.runes_[k].byte_end - tokenizer.runes_[k].byte_start = 2

----------------------------------------------------------------------------
(* Specification SpecScan: SmartGetWord::getFrontWords, one loop iteration *)
(* at a time                                                               *)

\* frontWords, lines 142-143 and the i_++ of the for loop: no phrase starts
\* at root_, the scan goes on one rune further
restart_KeepRoot(m) == [m EXCEPT !.i = m.root + 1]

restart(m) == [m EXCEPT !.i = m.root + 1, !.root = m.root + 1]

\* frontWords, lines 117-150: branch_ is null. s is the matcher with its
\* branch_, the position of the caller (pc) and the value frontWords hands
\* back (temp)
noBranch(root, s) ==
    LET m == s.m
        Back(str) ==
            LET at == IF Len(str) = 0 THEN m.root + 1 ELSE m.root + m.tempOffe
            IN  [s EXCEPT !.m = [m EXCEPT !.offe = m.root, !.str = str, !.root = at,
                                          !.i = at, !.isBack = FALSE],
                          !.branch = root, !.temp = str, !.pc = "while",
                          !.backs = @ + 1]
    IN  IF m.isBack THEN Back(unicode_to_utf8(m.chars, m.root, m.tempOffe))
        ELSE IF m.root + 1 >= Len(m.chars)
        THEN [s EXCEPT !.m = [m EXCEPT !.i = m.root, !.root = m.root + 1],
                       !.branch = root, !.temp = NULL_RESULT, !.pc = "while"]
        ELSE [s EXCEPT !.m = restart(m), !.branch = root, !.restarts = @ + 1]

\* variant: a WORD_END match leaves root_ where it was
wordEnd_RootStays(root, s, node) ==
    LET m == s.m
        End(str) ==
            [s EXCEPT !.m = [m EXCEPT !.offe = m.root, !.str = str,
                                      !.param = node.param, !.isBack = FALSE,
                                      !.i = IF Len(str) > 0 THEN m.i + 1 ELSE m.root + 1],
                      !.branch = root, !.temp = str, !.pc = "while",
                      !.ends = @ + 1]
    IN  End(unicode_to_utf8(m.chars, m.root, m.i - m.root + 1))

\* frontWords, lines 159-174: case WORD_END
wordEnd(root, s, node) ==
    LET m == s.m
        End(str) ==
            [s EXCEPT !.m = [m EXCEPT !.offe = m.root, !.str = str,
                                      !.param = node.param, !.isBack = FALSE,
                                      !.i = IF Len(str) > 0 THEN m.i + 1 ELSE m.root + 1,
                                      !.root = IF Len(str) > 0 THEN m.i + 1 ELSE @],
                      !.branch = root, !.temp = str, !.pc = "while",
                      !.ends = @ + 1]
    IN  End(unicode_to_utf8(m.chars, m.root, m.i - m.root + 1))

\* frontWords, lines 109-183: the loop test and one iteration of the for
\* loop, or the statements behind the loop when the test fails
frontWordsIteration(root, s) ==
    LET m == s.m
        n == Len(m.chars)
        Found(node) ==
            IF node = NullNode THEN noBranch(root, s)
            ELSE IF node.status = WORD_CONTINUE
            THEN [s EXCEPT !.m = [m EXCEPT !.isBack = TRUE,
                                           !.tempOffe = m.i - m.root + 1,
                                           !.param = node.param, !.i = @ + 1],
                           !.branch = node]
            ELSE IF node.status = WORD_END THEN wordEnd(root, s, node)
            ELSE [s EXCEPT !.m = [m EXCEPT !.i = @ + 1], !.branch = node]
    IN  IF ~(m.i < n + 1)
        THEN [s EXCEPT !.m = [m EXCEPT !.tempOffe = @ + n],
                       !.temp = NULL_RESULT, !.pc = "while"]
        ELSE Found(IF m.i = n THEN NullNode ELSE getBranch(s.branch, m.chars[m.i + 1]))

\* getFrontWords, line 55: the head of the do-while loop
doHead(s) ==
    IF s.loop_count + 1 > LoopLimit
    THEN [s EXCEPT !.loop_count = @ + 1, !.temp = NULL_RESULT, !.pc = "idle",
                   !.done = TRUE]
    ELSE [s EXCEPT !.loop_count = @ + 1, !.pc = "for"]

\* getFrontWords, lines 68-82: frontWords has returned s.temp
whileTail(s) ==
    LET Checked(temp) ==
            IF temp = EMPTYSTRING
            THEN [s EXCEPT !.temp = temp, !.pc = "do", !.rejected = @ + 1]
            ELSE [s EXCEPT !.temp = temp, !.pc = "idle",
                           !.returned = Append(@, [offe |-> s.m.offe, word |-> temp])]
    IN  IF s.temp = NULL_RESULT THEN [s EXCEPT !.pc = "idle", !.done = TRUE]
        ELSE Checked(checkNumberOrEnglish(s.m, s.temp))

\* forest->getWord(chars), the constructor that takes the runes, with its
\* counters of what the scan did so far
NewScan(root, chars) ==
    [m |-> [NewGetWord(<<>>) EXCEPT !.chars = chars], branch |-> root, pc |-> "idle", loop_count |-> 0,
     temp |-> <<>>, done |-> FALSE, restarts |-> 0, backs |-> 0, ends |-> 0,
     rejected |-> 0, returned |-> <<>>]

ScanAlphabet == {CP.zhong, CP.guo, CP.a, CP.underscore}

\* documents that hold a backtracked match, restarts and rejected matches,
\* and a complete three rune phrase between other runes
ScanExtraTexts ==
    {Encode(chars) : chars \in {<<CP.zhong, CP.guo, CP.underscore, CP.a, CP.a>>,
                                <<CP.a, CP.zhong, CP.guo, CP.ren, CP.five>>}}

\* a document of LoopLimit + 1 letters, each a phrase of its own that the
\* boundary rule rejects, and a phrase behind them
LongRun ==
    [text |-> [k \in 1..(LoopLimit + 1) |-> CP.a] \o Encode(<<CP.zhong>>),
     chars |-> [k \in 1..(LoopLimit + 1) |-> CP.a] \o <<CP.zhong>>]

ScanTexts == {Encode(chars) : chars \in SeqsUpTo(ScanAlphabet, MaxScanLen)}
                 \cup ScanExtraTexts

\* the documents with their runes
ScanDocs ==
    {[text |-> t, chars |-> utf8_to_unicode(t)] : t \in ScanTexts} \cup {LongRun}

\* the phrase lists the tries of the scan are built from
ScanWordLists ==
    {<<>>,
     <<Encode(<<CP.a>>)>>,
     <<Encode(<<CP.zhong, CP.guo>>)>>,
     <<Encode(<<CP.zhong>>), Encode(<<CP.zhong, CP.guo, CP.ren>>)>>,
     <<Encode(<<CP.zhong>>), Encode(<<CP.zhong, CP.guo, CP.ren>>), Encode(<<CP.a>>)>>}

RECURSIVE BuildForest(_)
\* insertPinyin called for every phrase of words, in order
BuildForest(words) ==
    IF words = <<>> THEN RootNode
    ELSE addWord(BuildForest(SubSeq(words, 1, Len(words) - 1)), words[Len(words)],
                 Payload(1, Len(utf8_to_unicode(words[Len(words)]))))

ScanForests == {BuildForest(words) : words \in ScanWordLists}

ScanInit ==
    /\ forest \in ScanForests
    /\ \E doc \in ScanDocs :
           /\ text = doc.text
           /\ sgw = NewScan(forest, doc.chars)
    /\ ret = NoRet
    /\ ops = 0 /\ lastOp = NoOp /\ recent = {}
    /\ FmtIdle /\ ConcIdle /\ SegIdle /\ TokIdle

\* word_matcher.getFrontWords() is called, as long as it did not return
\* NULL_RESULT
CallGetFrontWords ==
    /\ sgw.pc = "idle"
    /\ ~sgw.done
    /\ sgw' = [sgw EXCEPT !.pc = "do", !.loop_count = 0, !.temp = <<>>]
    /\ ret' = NoRet
    /\ UNCHANGED <<forest, ops, lastOp, recent, text, fmtVars, concVars, segVars, tokVars>>

\* getFrontWords: ++loop_count > 1000, else frontWords() is entered
DoHead ==
    /\ sgw.pc = "do"
    /\ sgw' = doHead(sgw)
    /\ ret' = IF sgw'.pc = "idle"
              THEN [op |-> "getFrontWords", temp |-> sgw'.temp] ELSE ret
    /\ UNCHANGED <<forest, ops, lastOp, recent, text, fmtVars, concVars, segVars, tokVars>>

\* frontWords: one pass through the for loop
FrontWordsIteration ==
    /\ sgw.pc = "for"
    /\ sgw' = frontWordsIteration(forest, sgw)
    /\ UNCHANGED <<forest, ops, lastOp, recent, text, ret, fmtVars, concVars, segVars, tokVars>>

\* getFrontWords: the value of frontWords() is checked, the loop goes on or
\* the call returns
WhileTail ==
    /\ sgw.pc = "while"
    /\ sgw' = whileTail(sgw)
    /\ ret' = IF sgw'.pc = "idle"
              THEN [op |-> "getFrontWords", temp |-> sgw'.temp] ELSE ret
    /\ UNCHANGED <<forest, ops, lastOp, recent, text, fmtVars, concVars, segVars, tokVars>>

ScanNext == CallGetFrontWords \/ DoHead \/ FrontWordsIteration \/ WhileTail

\* the scan runs in the thread of its caller, which goes on to the node
\* statement whenever there is one
SpecScan == ScanInit /\ [][ScanNext]_vars /\ WF_vars(ScanNext)

\* the node branch_ of the iteration about to run
NextBranch(s) ==
    IF s.m.i = Len(s.m.chars) THEN NullNode
    ELSE getBranch(s.branch, s.m.chars[s.m.i + 1])

\* the iteration about to run finds that no phrase starts at root_
NoPhraseAtRoot(s) ==
    /\ s.pc = "for"
    /\ s.m.i < Len(s.m.chars) + 1
    /\ NextBranch(s) = NullNode
    /\ ~s.m.isBack

\* what every step of a scan does to root_
RootStep(s, t) ==
    /\ t.m.chars = s.m.chars
    /\ t.m.root >= s.m.root
    /\ NoPhraseAtRoot(s) =>
           /\ t.m.root = s.m.root + 1
           /\ t.pc = "for" => t.m.i = t.m.root /\ t.branch = forest
    /\ s.pc = "for" /\ t.pc = "while" /\ t.temp /= NULL_RESULT =>
           /\ t.m.offe = s.m.root
           /\ t.temp /= <<>>
           /\ t.temp = unicode_to_utf8(t.m.chars, t.m.offe, t.m.root - t.m.offe)
           /\ t.m.i = t.m.root
    /\ s.pc = "for" /\ t.pc = "for" /\ ~NoPhraseAtRoot(s) =>
           t.m.root = s.m.root /\ t.m.i = s.m.i + 1
    /\ s.pc = "while" =>
           /\ t.m = s.m
           /\ t.pc = "do" =>
                  s.m.root = s.m.offe + Len(utf8_to_unicode(s.temp))
    /\ s.pc \in {"idle", "do"} => t.m = s.m

\* what holds of the counters of a scan in every state
ScanBounded(s) ==
    /\ s.m.root <= Len(s.m.chars) + 1
    /\ s.m.i <= Len(s.m.chars) + 1
    /\ s.restarts + s.backs + s.ends <= Len(s.m.chars)
    /\ s.restarts <= Len(s.m.chars)
    /\ s.rejected <= s.backs + s.ends
    /\ s.loop_count <= Len(s.m.chars) + 1

\* C20: every call of getFrontWords returns, and the scan of a document comes
\* to its end with NULL_RESULT: a step that finds no phrase at root_ moves
\* root_ one rune on and restarts the scan there, a match that frontWords
\* hands back (returned or, after checkNumberOrEnglish, rejected) leaves root_
\* at the end of the match, root_ never goes down, and restarts plus matches
\* never exceed the number of runes of the document
C20_ScanTerminates ==
    /\ [][RootStep(sgw, sgw')]_vars
    /\ [](ScanBounded(sgw))
    /\ (sgw.pc /= "idle") ~> (sgw.pc = "idle")
    /\ <>[](sgw.done /\ sgw.pc = "idle")

\* a scan that came to its end after a backtracked match, two restarts and
\* two rejected matches
C20_Witness ==
    /\ sgw.done
    /\ sgw.pc = "idle"
    /\ sgw.backs >= 1
    /\ sgw.restarts >= 2
    /\ sgw.rejected >= 2

\* C21: getFrontWords returns NULL_RESULT only when root_ has reached the end
\* of the input and no match is pending (isBack_ unset), however many matches
\* checkNumberOrEnglish rejected before.
C21_NullOnlyAtEnd ==
    (sgw.pc = "idle" /\ sgw.done) =>
        /\ sgw.m.root >= Len(sgw.m.chars)
        /\ ~sgw.m.isBack

\* the number of runes of a returned match
RunesOf(found) == Len(utf8_to_unicode(found.word))

\* C22: the matches getFrontWords returned for one input, in the order of the
\* calls: each is the non-empty rune range [offe, offe + length) of the
\* input, holds the runes of that range, and starts at or behind the end of
\* the match returned before it.
C22_MatchesDisjointAscending ==
    \A k \in DOMAIN sgw.returned :
        LET found == sgw.returned[k]
        IN  /\ found.offe >= 0
            /\ RunesOf(found) >= 1
            /\ found.offe + RunesOf(found) <= Len(sgw.m.chars)
            /\ found.word = unicode_to_utf8(sgw.m.chars, found.offe, RunesOf(found))
            /\ k > 1 => found.offe >= sgw.returned[k - 1].offe
                                          + RunesOf(sgw.returned[k - 1])

\* two matches returned with a rune between them that belongs to neither
C22_Witness ==
    /\ sgw.done
    /\ Len(sgw.returned) >= 2
    /\ sgw.returned[2].offe > sgw.returned[1].offe + RunesOf(sgw.returned[1])

\* q is a proper prefix of p
ProperPrefix(q, p) == Len(q) < Len(p) /\ q = SubSeq(p, 1, Len(q))

\* what add(P, t) does to the nodes that were there on the path of P: a node
\* passed on the way changes status only from WORD_END to WORD_CONTINUE and
\* keeps its payload; the node P ends at stays WORD_END if it was, becomes
\* WORD_CONTINUE otherwise, and takes the payload t
MergeOnAdd ==
    lastOp'.op = "add" =>
        LET Pc == utf8_to_unicode(lastOp'.word)
        IN  \A q \in TrieChars \ {<<>>} :
                LET old == NodeAt(forest, q)
                    new == NodeAt(forest', q)
                IN  (old /= NullNode /\ (q = Pc \/ ProperPrefix(q, Pc))) =>
                        /\ new /= NullNode
                        /\ ProperPrefix(q, Pc) =>
                               /\ new.status = IF old.status = WORD_END
                                               THEN WORD_CONTINUE ELSE old.status
                               /\ new.param = old.param
                        /\ q = Pc =>
                               /\ new.status = IF old.status = WORD_END
                                               THEN WORD_END ELSE WORD_CONTINUE
                               /\ new.param = lastOp'.param

\* a phrase that is in the trie and is a proper prefix of another phrase in the
\* trie ends at a WORD_CONTINUE node
PrefixPhraseContinues ==
    \A q, p \in TrieChars \ {<<>>} :
        (ProperPrefix(q, p) /\ IsWord(forest, Encode(q)) /\ IsWord(forest, Encode(p)))
            => NodeAt(forest, q).status = WORD_CONTINUE

\* C23: add on an existing child: an intermediate node only turns WORD_END
\* into WORD_CONTINUE and leaves the payload; a final node becomes
\* WORD_CONTINUE unless it was WORD_END, which it stays, and the payload is
\* replaced.  A phrase that is complete and a proper prefix of a longer phrase
\* ends at a WORD_CONTINUE node, in whichever order the two were inserted.
C23_StatusMerge == [][MergeOnAdd]_vars /\ []PrefixPhraseContinues

\* U+4E2D was added after longer phrases through its node: its node turned from
\* CONTINUE into WORD_CONTINUE, and U+4E2D U+56FD, a phrase and a prefix of
\* U+4E2D U+56FD U+4EBA, is WORD_CONTINUE as well
C23_Witness ==
    /\ lastOp.op = "add" /\ ~lastOp.hit
    /\ lastOp.word = Encode(<<CP.zhong>>)
    /\ NodeAt(forest, <<CP.zhong>>).status = WORD_CONTINUE
    /\ IsWord(forest, Encode(<<CP.zhong, CP.guo>>))
    /\ NodeAt(forest, <<CP.zhong, CP.guo>>).status = WORD_CONTINUE
    /\ NodeAt(forest, <<CP.zhong, CP.guo, CP.ren>>) /= NullNode
    /\ NodeAt(forest, <<CP.zhong, CP.guo, CP.ren>>).status = WORD_END

RECURSIVE BuildFrom(_)
\* the trie add gives for the (phrase, payload) pairs of entries, added to an
\* empty trie in one fixed order
BuildFrom(entries) ==
    IF entries = {} THEN RootNode
    ELSE LET e == CHOOSE x \in entries : TRUE
         IN  addWord(BuildFrom(entries \ {e}), e[1], e[2])

\* every call so far was an add of a phrase not added before
OnlyDistinctAdds == Cardinality(recent) = ops

\* C24: phrases with pairwise distinct texts, added to an empty trie, give one
\* and the same trie in whatever order they are added: the same nodes in the
\* same places, the same status and the same payload at every node.
C24_OrderIndependent == OnlyDistinctAdds => forest = BuildFrom(recent)

\* three phrases were added, one of them a prefix of another, one starting
\* with another code point
C24_Witness ==
    /\ OnlyDistinctAdds
    /\ ops >= 3
    /\ {Encode(<<CP.zhong>>), Encode(<<CP.zhong, CP.guo>>), Encode(<<CP.guo>>)}
           \subseteq {e[1] : e \in recent}
    /\ forest = BuildFrom(recent)

\* the children of a node: the entries of branches that hold a node
ChildNodes(node) ==
    {node.branches[k] : k \in {j \in DOMAIN node.branches : node.branches[j] /= NullNode}}

RECURSIVE WordEndsAreLeaves(_)
\* below and at node: a WORD_END node has no child, a node with a child is
\* CONTINUE or WORD_CONTINUE
WordEndsAreLeaves(node) ==
    /\ node.status = WORD_END => ChildNodes(node) = {}
    /\ ChildNodes(node) /= {} => node.status \in {CONTINUE, WORD_CONTINUE}
    /\ \A child \in ChildNodes(node) : WordEndsAreLeaves(child)

\* C25: after any sequence of add and remove calls no WORD_END node has a
\* child: every node with a child is CONTINUE or WORD_CONTINUE, and no phrase
\* of the trie goes on from a WORD_END node.
C25_WordEndHasNoChild ==
    /\ WordEndsAreLeaves(forest)
    /\ \A q \in TrieChars \ {<<>>}, p \in TrieChars :
           (NodeAt(forest, q) /= NullNode /\ NodeAt(forest, q).status = WORD_END
                /\ ProperPrefix(q, p))
               => ~IsWord(forest, Encode(p))

\* U+4E2D was added, then U+4E2D U+56FD, then U+4E2D was removed: a CONTINUE
\* node with a WORD_END child
C25_Witness ==
    /\ lastOp.op = "remove" /\ lastOp.hit
    /\ lastOp.word = Encode(<<CP.zhong>>)
    /\ NodeAt(forest, <<CP.zhong>>).status = CONTINUE
    /\ NodeAt(forest, <<CP.zhong, CP.guo>>) /= NullNode
    /\ NodeAt(forest, <<CP.zhong, CP.guo>>).status = WORD_END

\* the candidates in the order addCandidate took them
Kept ==
    LET InList(k) == \E i \in DOMAIN Candidates : Candidates[i] = tokenizer.offered_[k]
        RECURSIVE Pick(_)
        Pick(k) == IF k > Len(tokenizer.offered_) THEN <<>>
                   ELSE IF InList(k) THEN <<tokenizer.offered_[k]>> \o Pick(k + 1)
                   ELSE Pick(k + 1)
    IN  Pick(1)

\* C26: along the scan of the input the position of the candidates does not
\* go down: a candidate whose bytes lie behind the bytes of a candidate made
\* before it has a position at least as large.  (The candidates for the whole
\* input, made after the scan, start at byte 0 and lie behind nothing.)
C26_PositionsNondecreasing ==
    (Resetted /\ tokRet.op = "next") =>
        \A i, j \in DOMAIN Kept :
            (i < j /\ Kept[i].end_offset <= Kept[j].start_offset)
                => Kept[i].position <= Kept[j].position

\* the items addCandidate was called with before the first-letter step of
\* processInput, for the Config and the document of tokenizer t
OfferedBeforeFirstLetters(t) ==
    LET Generated(g) ==
            IF g.returned THEN g.t.offered_
            ELSE addJoinedFullPinyin(addOriginal(g.t)).offered_
    IN  Generated(generateCandidates(
            [reset(PinyinTokenizer(t.config_, FALSE, 0), t.char_buffer)
                EXCEPT !.processed_candidate_ = TRUE],
            forest, segDict))

\* the first-letter accumulator, capped to limitFirstLetterLength and
\* lowercased if the Config says so
CappedFirstLetters(t) ==
    LET capped == IF t.config_.limitFirstLetterLength > 0
                     /\ Len(t.first_letters_) > t.config_.limitFirstLetterLength
                  THEN SubSeq(t.first_letters_, 1, t.config_.limitFirstLetterLength)
                  ELSE t.first_letters_
    IN  IF t.config_.lowercase THEN ToLowerStr(capped) ELSE capped

\* after the first next() on a document: the items addCandidate was called
\* with are those of the steps before, followed by the joined first-letter
\* candidate unless it is left out
FirstLetterCandidate(t, omitted) ==
    LET fl == CappedFirstLetters(t)
    IN  t.offered_ =
            OfferedBeforeFirstLetters(t)
                \o (IF t.config_.keepFirstLetter /\ t.first_letters_ # <<>> /\ ~omitted
                    THEN <<TermItem(NormalizeTerm(t.config_, fl), 0, Len(fl), 1)>>
                    ELSE <<>>)

\* C27 as stated: with keepFirstLetter on, the joined first-letter candidate is
\* left out exactly when separate-first-letter mode is on and the accumulator
\* holds a single character.
C27_OmittedIffOneAccumulated ==
    (Resetted /\ tokRet.op = "next") =>
        FirstLetterCandidate(tokenizer,
            tokenizer.config_.keepSeparateFirstLetter /\ Len(tokenizer.first_letters_) = 1)

\* C27, amended: with keepFirstLetter on and a non-empty accumulator, the
\* joined first-letter candidate is left out exactly when
\* separate-first-letter mode is on and the accumulator capped to
\* limitFirstLetterLength holds a single character; otherwise it is emitted
\* with the capped, case-folded string, bytes 0 to its length, position 1.
C27_OmittedIffOneAfterCap ==
    (Resetted /\ tokRet.op = "next") =>
        FirstLetterCandidate(tokenizer,
            tokenizer.config_.keepSeparateFirstLetter
                /\ Len(CappedFirstLetters(tokenizer)) <= 1)

\* two first letters were accumulated, the cap is one, separate-first-letter
\* mode is on: no joined candidate
C27_Witness ==
    /\ Resetted /\ tokRet.op = "next"
    /\ tokenizer.config_.keepFirstLetter /\ tokenizer.config_.keepSeparateFirstLetter
    /\ tokenizer.config_.limitFirstLetterLength = 1
    /\ Len(tokenizer.first_letters_) >= 2
    /\ tokenizer.offered_ = OfferedBeforeFirstLetters(tokenizer)
    /\ tokenizer.offered_ # <<>>

\* what formatPinyin hands to convertToneNumber2ToneMark: the reading with
\* u: turned into v
ToneMarkInput == ReplaceAll(fmtIn, <<117, 58>>, <<118>>)

\* the tone-mark stage was run on a reading that, lowercased, is not letters
\* a-z followed by at most one digit 1-5; the case stage changes nothing
BadShapeToneMark ==
    /\ Formatted
    /\ fmtFormat.tone = "WITH_TONE_MARK" /\ fmtFormat.case = "LOWERCASE"
    /\ \E k \in DOMAIN ToneMarkInput :
           LET b == tolower(ToneMarkInput[k])
           IN  ~(b >= 97 /\ b <= 122) /\ ~(k = Len(ToneMarkInput) /\ b >= 49 /\ b <= 53)

\* C28 as stated: such a reading comes back exactly as it was passed in, with
\* the same letter case.
C28_BadShapeUnchanged == BadShapeToneMark => fmtOut = ToneMarkInput

\* C28, amended: such a reading comes back with the same characters in the
\* same order, the letters A-Z turned into a-z; a reading without uppercase
\* letters comes back as it was passed in.
C28_BadShapeLowercased ==
    BadShapeToneMark =>
        /\ Len(fmtOut) = Len(ToneMarkInput)
        /\ \A k \in DOMAIN fmtOut :
               fmtOut[k] = IF ToneMarkInput[k] >= 65 /\ ToneMarkInput[k] <= 90
                           THEN ToneMarkInput[k] + 32 ELSE ToneMarkInput[k]

\* D3a came back as d3a
C28_Witness ==
    /\ BadShapeToneMark
    /\ fmtIn = <<68, 51, 97>>
    /\ fmtOut = <<100, 51, 97>>

\* C29: with removeDuplicateTerm off, an item is dropped only when an item
\* with the same term and the same position was taken before it: every term
\* and position addCandidate was called with is the term and position of a
\* candidate, also when a term ends in digits.
C29_DroppedOnlyOnSameTermAndPosition ==
    (Resetted /\ tokRet.op = "next" /\ ~tokenizer.config_.removeDuplicateTerm) =>
        \A k \in DOMAIN tokenizer.offered_ :
            \E i \in DOMAIN Candidates :
                /\ Candidates[i].term = tokenizer.offered_[k].term
                /\ Candidates[i].position = tokenizer.offered_[k].position

\* the stretches of ASCII bytes of the input between two runes outside ASCII
\* (or the ends of the input) that hold a letter or a digit, as pairs of
\* 1-based byte indices
AsciiStretches(input) ==
    {seg \in (DOMAIN input) \X (DOMAIN input) :
        /\ seg[1] <= seg[2]
        /\ \A k \in seg[1]..seg[2] : input[k] < 128
        /\ seg[1] = 1 \/ input[seg[1] - 1] >= 128
        /\ seg[2] = Len(input) \/ input[seg[2] + 1] >= 128
        /\ \E k \in seg[1]..seg[2] : is_alnum(input[k])}

\* the configurations under which parseBuff makes one candidate of a whole
\* run of letters and digits
WholeRunCandidates(config) ==
    /\ config.keepNoneChinese /\ config.keepNoneChineseTogether
    /\ ~config.noneChinesePinyinTokenize
    /\ \/ config.keepFirstLetter \/ config.keepSeparateFirstLetter
       \/ config.keepFullPinyin \/ ~config.keepNoneChineseInJoinedFullPinyin

\* C30: the candidate of a joined run of letters and digits starts at the
\* byte offset of the first letter or digit of the run and ends just past the
\* last one, also when spaces or punctuation come before the first letter or
\* digit, or came before a Chinese character in front of the run.
C30_RunOffsets ==
    (Resetted /\ tokRet.op = "next" /\ WholeRunCandidates(tokenizer.config_)) =>
        \A seg \in AsciiStretches(tokenizer.char_buffer) :
            LET input == tokenizer.char_buffer
                first == CHOOSE k \in seg[1]..seg[2] :
                             is_alnum(input[k])
                             /\ \A j \in seg[1]..(k - 1) : ~is_alnum(input[j])
                last == CHOOSE k \in seg[1]..seg[2] :
                            is_alnum(input[k])
                            /\ \A j \in (k + 1)..seg[2] : ~is_alnum(input[j])
                run == SelectSeq(SubSeq(input, seg[1], seg[2]), is_alnum)
            IN  \E k \in DOMAIN tokenizer.offered_ :
                    /\ tokenizer.offered_[k].term = NormalizeTerm(tokenizer.config_, run)
                    /\ tokenizer.offered_[k].start_offset = first - 1
                    /\ tokenizer.offered_[k].end_offset = last

====
